---- MODULE Spec2Model ----
(***************************************************************************)
(* Recording lifecycle of heycat: the RecordingManager state machine       *)
(* (recording/state.rs), the RecordingCoordinator (recording/              *)
(* coordinator.rs), the command implementations (commands/logic.rs), the   *)
(* audio thread (audio/thread.rs) and the cpal capture backend             *)
(* (audio/cpal_backend.rs).                                                *)
(*                                                                         *)
(* Option<T> is a set with at most one element: None is {}, Some(x) is {x}.*)
(* An AudioBuffer is an Arc<Mutex<Vec<f32>>>: a handle (an id) into `heap`.*)
(***************************************************************************)
EXTENDS Integers, Sequences, FiniteSets, TLC

\* ---------------------------------------------------------------- bounds
\* Most samples one AudioBuffer holds in the model.
MaxSamples == 2
\* Most AudioBuffers alive (referenced by some handle) at the same time.
MaxBuffers == 2
\* Most commands waiting in the audio thread's channel.
MaxQueue == 2
\* Most samples one hardware callback delivers.
MaxInput == 5
\* Most input samples one capture session receives in the model.
MaxSessionInput == 7
\* The latest time, in milliseconds, the clock of the model reaches.
MaxClock == 3
\* Most frames a SilenceDetector processes in one session.
MaxFrames == 4
\* Most samples a RecordingDiagnostics is given.
MaxDiagSamples == 2
\* Most registration threads spawned and not yet finished.
MaxDeferred == 5

\* Sample values (f32 in the source; two distinct values tell order apart).
Samples == {1, 2}

\* audio/mod.rs: pub const DEFAULT_SAMPLE_RATE: u32 = 44100
DEFAULT_SAMPLE_RATE == 44100

BufferIds == 1..MaxBuffers

RecordingStates == {"Idle", "Recording", "Processing"}

VARIABLES
    state,            \* RecordingManager.state
    audio_buffer,     \* RecordingManager.audio_buffer : Option<AudioBuffer>
    last_recording,   \* RecordingManager.last_recording : Option<LastRecording>
    heap,             \* contents of every AudioBuffer (<<>> when no handle is left)
    backend_state,    \* the coordinator's capture backend: CaptureState
    backend_buffer,   \* the buffer handle that backend holds : Option<AudioBuffer>
    sample_rate,      \* RecordingCoordinator.sample_rate
    queue,            \* the audio thread's channel: AudioCommands sent, not yet received
    thread_running,   \* whether audio_thread_main still holds the receiver
    thread_log,       \* what the audio thread logged last
    cpal_state,       \* CpalBackend.state
    stream,           \* CpalBackend.stream : Option<Stream>
    callback_state,   \* CpalBackend.callback_state : Option<Arc<CallbackState>>
    stop_channel,     \* the StopReasons sent to this session's stop_signal
    cb_pc,            \* where the data callback is inside process_samples
    cb_reason,        \* the StopReason it is about to signal, if any
    cb_input,         \* the samples the data callback received last
    err_pc,           \* where the stream-error callback is inside err_fn
    stop_pc,          \* the statement of CpalBackend::stop to run next (0: not in stop)
    stop_trace,       \* what the last CpalBackend::stop did and met, in order
    state_lock,       \* who holds the Mutex<RecordingManager> of the commands
    buffer_lock,      \* who holds the mutex of the session's AudioBuffer
    impl_pc,          \* where stop_recording_impl is
    impl_samples,     \* the samples stop_recording_impl cloned
    detector,         \* the SilenceDetector
    clock,            \* the time Instant::now() gives, in milliseconds
    frames,           \* the frames the detector processed in this session
    diag,             \* the RecordingDiagnostics
    rec,              \* where record_input is, and the samples it has left
    chk,              \* where each thread is inside check_warnings, and its locals
    returned,         \* how often check_warnings has returned each warning type
    caller,           \* where each thread that calls a command is inside it
    tally,            \* what the commands have done since the session began
    escape,           \* HotkeyIntegration.escape : Option of the Escape configuration
    escape_registered,    \* HotkeyIntegration.escape_registered : Arc<AtomicBool>
    double_tap_detector,  \* HotkeyIntegration.double_tap_detector : Option
    shortcuts,        \* the shortcuts registered with the shortcut backend
    deferred,         \* the spawned registration threads that have not finished
    op,               \* the operation executed last
    arg,              \* its argument ("-" when it takes none)
    prev_state,       \* RecordingManager.state when it was called
    ret,              \* what it returned
    trail,            \* the changes of RecordingManager.state it made, in order
    calls             \* the collaborator calls it made, in order

mgrVars == <<state, audio_buffer, last_recording>>
obsVars == <<op, arg, prev_state, ret, trail, calls>>
coordVars == <<backend_state, backend_buffer, sample_rate>>
threadVars == <<queue, thread_running, thread_log>>
implVars == <<state_lock, buffer_lock, impl_pc, impl_samples>>
silenceVars == <<detector, clock, frames>>
diagVars == <<diag, rec, chk, returned>>
raceVars == <<caller, tally>>
escVars == <<escape, escape_registered, double_tap_detector, shortcuts, deferred>>
cpalVars == <<cpal_state, stream, callback_state, stop_channel,
              cb_pc, cb_reason, cb_input, err_pc, stop_pc, stop_trace>>

\* ------------------------------------------------ RecordingManager (pure)

\* The manager as a value, so that handlers can chain its methods.
Manager == [state |-> state, audio_buffer |-> audio_buffer,
            last_recording |-> last_recording]

\* ValidTransition with Recording -> Idle also allowed.
ValidTransitionAlsoAbort(from, to) ==
    <<from, to>> \in {<<"Idle", "Recording">>,
                      <<"Recording", "Processing">>,
                      <<"Processing", "Idle">>,
                      <<"Recording", "Idle">>}

\* ValidTransition with the self-transition Idle -> Idle also allowed.
ValidTransitionAlsoSelf(from, to) ==
    <<from, to>> \in {<<"Idle", "Recording">>,
                      <<"Recording", "Processing">>,
                      <<"Processing", "Idle">>,
                      <<"Idle", "Idle">>}

\* state.rs:101-106, the matches! of valid (current, new) pairs.
ValidTransition(from, to) ==
    <<from, to>> \in {<<"Idle", "Recording">>,
                      <<"Recording", "Processing">>,
                      <<"Processing", "Idle">>}

Ok == [tag |-> "Ok"]
InvalidTransition(from, to) == [tag |-> "InvalidTransition", from |-> from, to |-> to]

\* A buffer that is the lowest storage, whether or not a handle refers to it.
AudioBuffer_new_shared(live) == CHOOSE b \in BufferIds : \A c \in BufferIds : b <= c

\* AudioBuffer::new (audio/mod.rs:27-29): a new Arc, whose storage no live
\* handle refers to. live: the buffers some handle still refers to.
AudioBuffer_new(live) == CHOOSE b \in BufferIds \ live : \A c \in BufferIds \ live : b <= c

\* Dropping the last handle of an Arc frees its Vec (audio/mod.rs:23).
Collect(h, live) == [b \in BufferIds |-> IF b \in live THEN h[b] ELSE <<>>]

\* The last recording left as it was.
retain_nothing(m, h) == m.last_recording

\* state.rs:122-128, "retain the buffer for transcription before clearing":
\* the last recording after the Processing -> Idle transition.
retain(m, h) ==
    IF m.audio_buffer = {} THEN m.last_recording
    ELSE {[samples |-> h[b], sample_rate |-> DEFAULT_SAMPLE_RATE] : b \in m.audio_buffer}

\* state.rs:100-136. m: the manager, h: the heap, live: the buffers some
\* handle refers to. Returns the result and the manager afterwards.
transition_to(m, h, live, new_state) ==
    IF ~ValidTransition(m.state, new_state)
    THEN [res |-> InvalidTransition(m.state, new_state), m |-> m]
    ELSE IF m.state = "Idle" /\ new_state = "Recording"
    THEN \* self.audio_buffer = Some(AudioBuffer::new())
         [res |-> Ok,
          m |-> [m EXCEPT !.state = new_state, !.audio_buffer = {AudioBuffer_new(live)}]]
    ELSE IF m.state = "Processing" /\ new_state = "Idle"
    THEN \* snapshot into last_recording (if a buffer is held), then drop it
         [res |-> Ok,
          m |-> [state |-> new_state,
                 audio_buffer |-> {},
                 last_recording |-> retain(m, h)]]
    ELSE [res |-> Ok, m |-> [m EXCEPT !.state = new_state]]

\* state.rs:139-143
get_audio_buffer(m) == m.audio_buffer

\* state.rs:139-143 as the caller sees it: the handle or NoAudioBuffer.
get_audio_buffer_result(m) ==
    IF get_audio_buffer(m) = {} THEN [tag |-> "NoAudioBuffer"]
    ELSE [tag |-> "Ok", buffer |-> CHOOSE b \in get_audio_buffer(m) : TRUE]

\* state.rs:149-162: the retained samples with their rate and duration
\* (sample_count / sample_rate, kept as a fraction), or NoAudioBuffer.
get_last_recording_buffer(m) ==
    IF m.last_recording = {} THEN [tag |-> "NoAudioBuffer"]
    ELSE LET recording == CHOOSE r \in m.last_recording : TRUE IN
         [tag |-> "Ok",
          samples |-> recording.samples,
          sample_rate |-> recording.sample_rate,
          duration_secs |-> [num |-> Len(recording.samples),
                             den |-> recording.sample_rate]]

\* state.rs:167-169
clear_last_recording(m) == [m EXCEPT !.last_recording = {}]

\* reset_to_idle that forgets to drop the buffer.
reset_to_idle_keeps_buffer(m) == [m EXCEPT !.state = "Idle"]

\* reset_to_idle that also forgets the last recording.
reset_to_idle_clears_last(m) ==
    [m EXCEPT !.state = "Idle", !.audio_buffer = {}, !.last_recording = {}]

\* state.rs:175-178
reset_to_idle(m) == [m EXCEPT !.state = "Idle", !.audio_buffer = {}]

\* The absolute values of the samples record_input is given, in units of
\* QUIET_THRESHOLD_RMS: silent, loud, and at the clipping threshold.
Levels == {0, 2, 3}

\* diagnostics.rs:13, the unit of Levels.
QUIET_THRESHOLD_RMS == 1

\* diagnostics.rs:16, in the same unit.
CLIPPING_THRESHOLD == 3

\* diagnostics.rs:19, scaled down to a few samples.
MIN_SAMPLES_FOR_WARNING == 2

\* diagnostics.rs:29-34
QualityWarningType == {"TooQuiet", "Clipping"}

\* The threads that call check_warnings.
CheckThreads == {1, 2}

\* The slices record_input is given: up to two samples.
Slices ==
    {<<>>} \cup {<<x>> : x \in Levels} \cup {<<x, y>> : x \in Levels, y \in Levels}

\* RecordingDiagnostics::new (diagnostics.rs:96-105)
RecordingDiagnostics_new ==
    [input_sample_count |-> 0,
     input_peak |-> 0,
     input_sum_sq |-> 0,
     clipping_count |-> 0,
     quiet_warning_emitted |-> FALSE,
     clipping_warning_emitted |-> FALSE]

\* A thread that is not inside check_warnings.
CheckIdle ==
    [pc |-> "idle", sample_count |-> 0, sum_sq |-> 0,
     clip_count |-> 0, warnings |-> <<>>]

\* The body of record_input's loop for one sample (diagnostics.rs:117-126).
record_sample(d, sample) ==
    [d EXCEPT !.input_peak = IF sample > @ THEN sample ELSE @,
              !.input_sum_sq = @ + sample * sample,
              !.clipping_count = IF sample >= CLIPPING_THRESHOLD THEN @ + 1 ELSE @]

\* `input.rms < QUIET_THRESHOLD_RMS` (diagnostics.rs:166) with the rms of
\* input_metrics (137-141), compared by the squares.
rms_is_quiet(sum_sq, sample_count) ==
    IF sample_count > 0
    THEN sum_sq < QUIET_THRESHOLD_RMS * QUIET_THRESHOLD_RMS * sample_count
    ELSE 0 < QUIET_THRESHOLD_RMS

\* The quiet check made on any number of samples.
enough_samples_always(sample_count) == TRUE

\* diagnostics.rs:165
enough_samples(sample_count) == sample_count >= MIN_SAMPLES_FOR_WARNING

\* A load in place of the swap: the flag is read and left as it was.
swap_relaxed_only_loads(flag) == [old |-> flag, new |-> flag]

\* AtomicBool::swap(true, Ordering::Relaxed) (diagnostics.rs:167, 183)
swap_relaxed(flag) == [old |-> flag, new |-> TRUE]

\* The threads that call the commands: the hotkey handler and the
\* silence detection's auto-stop (silence_handler.rs:222-234), or any two.
Callers == {1, 2}

\* A thread that is not inside a command.
CallerIdle == [pc |-> "idle", fn |-> "-", samples |-> <<>>]

\* What has happened in the session under way, or in the last one: starts
\* and stops that returned Ok, transitions from Recording to Processing, and
\* files encode_wav wrote.
NoTally == [starts |-> 0, processing |-> 0, encoded |-> 0, stops |-> 0]

\* A mutex that lets everyone in.
lock_free_always(lock) == TRUE

\* Mutex::lock returns when no thread holds the guard (logic.rs:51, 106).
lock_free(lock) == lock = {}

\* crate::hotkey::ESCAPE_SHORTCUT (escape_handler.rs:123, 222)
ESCAPE_SHORTCUT == "Escape"

\* The threads spawned by register_escape_listener and
\* unregister_escape_listener (escape_handler.rs:118, 218) that have not
\* finished: those that are to call backend.register, those whose register
\* returned Ok and that are to store escape_registered, and those that are
\* to call backend.unregister.
NoThreads == [register |-> 0, store |-> 0, unregister |-> 0]

Unfinished(d) == d.register + d.store + d.unregister

\* ShortcutBackend::register as MockShortcutBackend does it
\* (mock_backends.rs:34-49): an error if the shortcut is registered. ok:
\* whether the backend accepts a shortcut that is not registered.
backend_register(registered, shortcut, ok) ==
    IF shortcut \in registered \/ ~ok
    THEN [registered |-> registered, ok |-> FALSE]
    ELSE [registered |-> registered \cup {shortcut}, ok |-> TRUE]

\* ShortcutBackend::unregister as MockShortcutBackend does it
\* (mock_backends.rs:51-60).
backend_unregister(registered, shortcut) ==
    IF shortcut \in registered
    THEN [registered |-> registered \ {shortcut}, ok |-> TRUE]
    ELSE [registered |-> registered, ok |-> FALSE]

\* --------------------------------------------------------------- initial
\* RecordingManager::new (state.rs:79-85), MockAudioBackend::new / CpalBackend::new.
Init ==
    /\ state = "Idle"
    /\ audio_buffer = {}
    /\ last_recording = {}
    /\ heap = [b \in BufferIds |-> <<>>]
    /\ backend_state = "Idle"
    /\ backend_buffer = {}
    /\ sample_rate = DEFAULT_SAMPLE_RATE
    /\ queue = <<>>
    /\ thread_running = TRUE
    /\ thread_log = [cmd |-> "spawn", buffer |-> {}, ok |-> TRUE]
    /\ cpal_state = "Idle"
    /\ stream = {}
    /\ callback_state = {}
    /\ stop_channel = <<>>
    /\ cb_pc = "idle"
    /\ cb_reason = {}
    /\ cb_input = <<>>
    /\ err_pc = "idle"
    /\ stop_pc = 0
    /\ stop_trace = <<>>
    /\ state_lock = {}
    /\ buffer_lock = {}
    /\ impl_pc = "idle"
    /\ impl_samples = <<>>
    /\ detector = {}
    /\ clock = 0
    /\ frames = <<>>
    /\ diag = RecordingDiagnostics_new
    /\ rec = [pc |-> "idle", samples |-> <<>>]
    /\ chk = [t \in CheckThreads |-> CheckIdle]
    /\ returned = [w \in QualityWarningType |-> 0]
    /\ caller = [t \in Callers |-> CallerIdle]
    /\ tally = NoTally
    /\ escape = {}
    /\ escape_registered = FALSE
    /\ double_tap_detector = {}
    /\ shortcuts = {}
    /\ deferred = NoThreads
    /\ op = "new"
    /\ arg = "-"
    /\ prev_state = "Idle"
    /\ ret = Ok
    /\ trail = <<>>
    /\ calls = <<>>

\* The change of state, if any, that manager method `by` made from m to m2.
Change(m, m2, by) ==
    IF m.state = m2.state THEN <<>>
    ELSE <<[from |-> m.state, to |-> m2.state, by |-> by]>>

\* What an observer of the last operation sees: its name and argument.
Called(name, a) ==
    /\ op' = name
    /\ arg' = a
    /\ prev_state' = state

\* The buffers some handle refers to: the manager's, the coordinator's
\* backend's, those of Start commands in the channel (thread.rs:15) and the
\* CallbackState's (cpal_backend.rs:90).
LiveHandles ==
    audio_buffer \cup backend_buffer
        \cup UNION {queue[i].buffer : i \in 1..Len(queue)}
        \cup {cs.buffer : cs \in callback_state}

\* Storage no handle refers to any more is freed.
Release(h) == heap' = Collect(h, LiveHandles')

\* The model holds at most MaxBuffers buffers alive.
CanAllocate == LiveHandles # BufferIds

SetManager(m) ==
    /\ state' = m.state
    /\ audio_buffer' = m.audio_buffer
    /\ last_recording' = m.last_recording

\* ------------------------------------------------ RecordingManager actions

\* RecordingManager::transition_to called directly (state.rs:100-136).
TransitionTo(target) ==
    /\ (state = "Idle" /\ target = "Recording") => CanAllocate
    /\ LET r == transition_to(Manager, heap, LiveHandles, target) IN
        /\ SetManager(r.m)
        /\ ret' = r.res
        /\ trail' = Change(Manager, r.m, "transition_to")
    /\ Called("transition_to", target)
    /\ calls' = <<>>
    /\ UNCHANGED <<escVars, raceVars, diagVars, implVars, silenceVars, coordVars, threadVars, cpalVars>>
    /\ Release(heap)

\* RecordingManager::reset_to_idle called directly (state.rs:175-178).
ResetToIdle ==
    /\ SetManager(reset_to_idle(Manager))
    /\ trail' = Change(Manager, reset_to_idle(Manager), "reset_to_idle")
    /\ Called("reset_to_idle", "-")
    /\ ret' = Ok
    /\ calls' = <<>>
    /\ UNCHANGED <<escVars, raceVars, diagVars, implVars, silenceVars, coordVars, threadVars, cpalVars>>
    /\ Release(heap)

\* RecordingManager::clear_last_recording (state.rs:167-169).
ClearLastRecording ==
    /\ SetManager(clear_last_recording(Manager))
    /\ trail' = <<>>
    /\ Called("clear_last_recording", "-")
    /\ ret' = Ok
    /\ calls' = <<>>
    /\ UNCHANGED <<escVars, raceVars, diagVars, implVars, silenceVars, heap, coordVars, threadVars, cpalVars>>

\* RecordingManager::get_audio_buffer (state.rs:139-143): a read.
GetAudioBuffer ==
    /\ Called("get_audio_buffer", "-")
    /\ ret' = get_audio_buffer_result(Manager)
    /\ trail' = <<>>
    /\ calls' = <<>>
    /\ UNCHANGED <<escVars, raceVars, diagVars, implVars, silenceVars, mgrVars, heap, coordVars, threadVars, cpalVars>>

\* RecordingManager::get_last_recording_buffer (state.rs:149-162): a read.
GetLastRecordingBuffer ==
    /\ Called("get_last_recording_buffer", "-")
    /\ ret' = get_last_recording_buffer(Manager)
    /\ trail' = <<>>
    /\ calls' = <<>>
    /\ UNCHANGED <<escVars, raceVars, diagVars, implVars, silenceVars, mgrVars, heap, coordVars, threadVars, cpalVars>>

\* A holder of the handle returned by get_audio_buffer locks the buffer and
\* pushes a sample (state.rs:139-143, audio/mod.rs:32-34).
WriteAudioBuffer(v) ==
    /\ \E b \in get_audio_buffer(Manager) :
        /\ Len(heap[b]) < MaxSamples
        /\ heap' = [heap EXCEPT ![b] = Append(@, v)]
    /\ Called("write_audio_buffer", "-")
    /\ trail' = <<>>
    /\ ret' = Ok
    /\ calls' = <<>>
    /\ UNCHANGED <<escVars, raceVars, diagVars, implVars, silenceVars, mgrVars, coordVars, threadVars, cpalVars>>

\* ------------------------------------------------------------ CpalBackend

\* The output rate (16 kHz): TARGET_SAMPLE_RATE, cpal_backend.rs:12,222.
TARGET_SAMPLE_RATE == 16000
\* crate::audio_constants::RESAMPLE_CHUNK_SIZE (cpal_backend.rs:13), scaled down.
RESAMPLE_CHUNK_SIZE == 3
\* MAX_RESAMPLE_BUFFER_SAMPLES (cpal_backend.rs:12,122), scaled down.
MAX_RESAMPLE_BUFFER_SAMPLES == 6
\* The capacity of the shared AudioBuffer, scaled down to the model's bound.
MAX_BUFFER_SAMPLES == MaxSamples

Min(a, b) == IF a < b THEN a ELSE b

\* What one hardware callback may deliver once the stream has delivered
\* count samples: the next 1..MaxInput samples of the signal 1, 2, 1, 2, ...
Inputs(count) == {[i \in 1..n |-> 1 + ((count + i + 1) % 2)] : n \in 1..MaxInput}

\* How CpalBackend::start may end (cpal_backend.rs:290-432): without a
\* device, with a stream that cannot be built or played, or with a stream
\* at the device's rate (resampled unless it is the target rate).
StartOutcomes ==
    {[ok |-> FALSE, err |-> e, rate |-> 0] : e \in {"NoDeviceAvailable", "StreamError"}}
        \cup {[ok |-> TRUE, err |-> "", rate |-> r] : r \in {TARGET_SAMPLE_RATE, 48000}}

\* cpal_backend.rs:363-374, the CallbackState of a new session.
NewCallbackState(buffer, hasSignal, rate) ==
    [buffer |-> buffer,
     stop_signal |-> hasSignal,
     signaled |-> FALSE,
     resampler |-> rate # TARGET_SAMPLE_RATE,
     resample_buffer |-> <<>>,
     chunk_size |-> RESAMPLE_CHUNK_SIZE,
     input_sample_count |-> 0,
     output_sample_count |-> 0,
     device_sample_rate |-> rate,
     poisoned |-> {}]

\* AudioBuffer::is_full, called at cpal_backend.rs:167.
is_full(h, b) == Len(h[b]) >= MAX_BUFFER_SAMPLES

\* AudioBuffer::push_samples, called at cpal_backend.rs:180,230: appends as
\* many samples as fit and returns how many it took.
push_samples(h, b, samples) ==
    LET pushed == Min(Len(samples), MAX_BUFFER_SAMPLES - Len(h[b])) IN
    [h |-> [h EXCEPT ![b] = @ \o SubSeq(samples, 1, pushed)], pushed |-> pushed]

\* rubato's FftFixedIn::process (cpal_backend.rs:141,219): a fixed-size
\* input chunk gives a variable number of output frames, here the k first.
Resample(chunk, k) == SubSeq(chunk, 1, Min(k, Len(chunk)))

\* The numbers of output frames the session's resampler may give per chunk.
ResamplerOutputs(cs) == IF cs.resampler THEN 0..cs.chunk_size ELSE {0}

\* cpal_backend.rs:135-158: whole chunks are drained from the accumulation
\* buffer and resampled; the remainder stays.
\* The remainder is handed over as a last, short chunk.
RECURSIVE DrainChunksAndRest(_, _, _)
DrainChunksAndRest(buf, size, k) ==
    IF buf = <<>>
    THEN [rest |-> <<>>, out |-> <<>>, chunks |-> <<>>]
    ELSE LET n == Min(size, Len(buf))
             d == DrainChunksAndRest(SubSeq(buf, n + 1, Len(buf)), size, k)
         IN [rest |-> d.rest,
             out |-> Resample(SubSeq(buf, 1, n), k) \o d.out,
             chunks |-> <<SubSeq(buf, 1, n)>> \o d.chunks]

\* cpal_backend.rs:135-158: whole chunks are drained from the accumulation
\* buffer and resampled; the remainder stays. chunks: what the resampler
\* was given, in order.
RECURSIVE DrainChunks(_, _, _)
DrainChunks(buf, size, k) ==
    IF Len(buf) < size
    THEN [rest |-> buf, out |-> <<>>, chunks |-> <<>>]
    ELSE LET d == DrainChunks(SubSeq(buf, size + 1, Len(buf)), size, k) IN
         [rest |-> d.rest,
          out |-> Resample(SubSeq(buf, 1, size), k) \o d.out,
          chunks |-> <<SubSeq(buf, 1, size)>> \o d.chunks]

\* A load in place of the swap: the flag is read and left as it was.
swap_only_loads(flag) == [old |-> flag, new |-> flag]

\* AtomicBool::swap(true, SeqCst): the old value and the value stored.
swap(flag) == [old |-> flag, new |-> TRUE]

\* `if let Some(ref sender) = self.stop_signal { let _ = sender.send(reason); }`
\* (cpal_backend.rs:125-127). chan: the channel's contents.
send(cs, chan, reason) == IF cs.stop_signal THEN Append(chan, reason) ELSE chan

\* cpal_backend.rs:124-128 (also 168-172, 183-187, 349-353) run without
\* interruption: the flag is swapped and the reason sent if it was clear.
Signal(cs, chan, reason) ==
    LET w == swap(cs.signaled) IN
    [cs |-> [cs EXCEPT !.signaled = w.new],
     chan |-> IF ~w.old THEN send(cs, chan, reason) ELSE chan]

\* The check made after the samples were appended.
resample_overflow_after(cs, input) ==
    Len(cs.resample_buffer) > MAX_RESAMPLE_BUFFER_SAMPLES

\* cpal_backend.rs:122: appending the input would exceed the ceiling.
resample_overflow(cs, input) ==
    Len(cs.resample_buffer) + Len(input) > MAX_RESAMPLE_BUFFER_SAMPLES

\* The samples rescaled on their way through.
passthrough_scaled(input) == [i \in 1..Len(input) |-> 0]

\* cpal_backend.rs:162: `f32_samples.to_vec()` when no resampler is configured.
passthrough(input) == input

\* The samples appended to the Vec behind AudioBuffer::lock (audio/mod.rs:32-34).
push_to_buffer_by_lock(h, b, samples) ==
    [h |-> [h EXCEPT ![b] = @ \o samples], pushed |-> Len(samples)]

\* cpal_backend.rs:180: `self.buffer.push_samples(&samples_to_add)`.
push_to_buffer(h, b, samples) == push_samples(h, b, samples)

\* cpal_backend.rs:110-189 up to the point where a stop condition is found:
\* the CallbackState and heap afterwards, the StopReason to signal, if any,
\* and the chunks given to the resampler. k: how many frames the resampler
\* emits per chunk in this call. A poisoned accumulation-buffer lock makes
\* the call return (116-119), a poisoned resampler lock loses the chunk
\* (140, 150), a poisoned scratch-buffer lock changes nothing (137, 147-149).
process_samples(cs, h, input, k) ==
    LET counted == [cs EXCEPT !.input_sample_count = @ + Len(input)]
        locked == cs.resampler /\ "resample_buffer" \in cs.poisoned
        overflow == cs.resampler /\ resample_overflow(cs, input)
        resampler_ok == "resampler" \notin cs.poisoned
        d == DrainChunks(cs.resample_buffer \o input, cs.chunk_size,
                         IF resampler_ok THEN k ELSE 0)
        chunks == IF cs.resampler /\ resampler_ok THEN d.chunks ELSE <<>>
        accumulated == IF cs.resampler
                       THEN [counted EXCEPT !.resample_buffer = d.rest]
                       ELSE counted
        samples_to_add == IF cs.resampler THEN d.out ELSE passthrough(input)
        p == push_to_buffer(h, cs.buffer, samples_to_add)
    IN IF locked
       THEN [cs |-> counted, h |-> h, reason |-> {}, chunks |-> <<>>]
       ELSE IF overflow
       THEN [cs |-> counted, h |-> h, reason |-> {"ResampleOverflow"}, chunks |-> <<>>]
       ELSE IF is_full(h, cs.buffer)
       THEN [cs |-> accumulated, h |-> h, reason |-> {"BufferFull"}, chunks |-> chunks]
       ELSE [cs |-> [accumulated EXCEPT !.output_sample_count = @ + Len(samples_to_add)],
             h |-> p.h,
             reason |-> IF p.pushed < Len(samples_to_add) THEN {"BufferFull"} ELSE {},
             chunks |-> chunks]

\* One data callback run without interruption (cpal_backend.rs:384-387 and
\* 110-189): the samples are processed and a stop condition is signalled.
data_callback(cs, h, chan, input, k) ==
    LET r == process_samples(cs, h, input, k) IN
    IF r.reason = {}
    THEN [cs |-> r.cs, h |-> r.h, chan |-> chan]
    ELSE LET g == Signal(r.cs, chan, CHOOSE x \in r.reason : TRUE) IN
         [cs |-> g.cs, h |-> r.h, chan |-> g.chan]

\* The stream-error callback run without interruption (cpal_backend.rs:344-354).
err_fn(cs, chan) == Signal(cs, chan, "StreamError")

\* ceil(n * num / den) on naturals: what `(n as f64 * (num as f64 / den as f64)).ceil()`
\* (cpal_backend.rs:222-223) gives for the rates of StartOutcomes.
CeilDiv(n, num, den) == (n * num + den - 1) \div den

\* The check that lets an empty accumulation buffer through.
flush_needed_unless_full(cs) == Len(cs.resample_buffer) < cs.chunk_size

\* cpal_backend.rs:206-210: there is a residual, shorter than a chunk.
flush_needed(cs) ==
    Len(cs.resample_buffer) # 0 /\ Len(cs.resample_buffer) < cs.chunk_size

\* The whole padded chunk's output is expected.
expected_output_whole_chunk(cs) == cs.chunk_size

\* cpal_backend.rs:221-222: the residual's share of the output.
expected_output(cs) ==
    CeilDiv(Len(cs.resample_buffer), TARGET_SAMPLE_RATE, cs.device_sample_rate)

\* The buffer is cleared only where output was pushed.
clear_residual_if_output(cs, output) ==
    IF output = <<>> THEN cs ELSE [cs EXCEPT !.resample_buffer = <<>>]

\* cpal_backend.rs:241: `resample_buf.clear()`. output: what the resampler gave.
clear_residual(cs, output) == [cs EXCEPT !.resample_buffer = <<>>]

\* cpal_backend.rs:195-242. chunks: what the resampler was given, out: how
\* many frames it gave back.
flush_residuals(cs, h, k) ==
    LET residual_count == Len(cs.resample_buffer)
        padded == cs.resample_buffer
                    \o [i \in 1..(cs.chunk_size - residual_count) |-> 0]
        resampler_ok == "resampler" \notin cs.poisoned
        output == IF resampler_ok THEN Resample(padded, k) ELSE <<>>
        actual_output == Min(Len(output), expected_output(cs))
        cleared == clear_residual(cs, output)
    IN IF ~cs.resampler \/ "resample_buffer" \in cs.poisoned \/ ~flush_needed(cs)
       THEN [cs |-> cs, h |-> h, chunks |-> <<>>, out |-> 0]
       ELSE IF output = <<>>
       THEN [cs |-> cleared, h |-> h,
             chunks |-> IF resampler_ok THEN <<padded>> ELSE <<>>, out |-> 0]
       ELSE [cs |-> [cleared EXCEPT !.output_sample_count = @ + actual_output],
             h |-> push_samples(h, cs.buffer, SubSeq(output, 1, actual_output)).h,
             chunks |-> <<padded>>, out |-> Len(output)]

\* The backend as a value: [state, stream, callback_state].
Cpal == [state |-> cpal_state, stream |-> stream, callback_state |-> callback_state]

\* CpalBackend::start (cpal_backend.rs:266-440): an error returns before
\* the backend is touched; on success the new stream and CallbackState
\* replace whatever was there.
cpal_start(b, buffer, hasSignal, outcome) ==
    IF ~outcome.ok
    THEN [b |-> b, ok |-> FALSE]
    ELSE [b |-> [state |-> "Capturing",
                 stream |-> {"playing"},
                 callback_state |-> {NewCallbackState(buffer, hasSignal, outcome.rate)}],
          ok |-> TRUE]

\* The residuals flushed and logged while the stream still runs.
StopOrderFlushFirst ==
    <<"flush_residuals", "log_sample_diagnostics", "drop_stream", "clear">>

\* The statements of CpalBackend::stop, in order (cpal_backend.rs:446-463).
StopOrder == <<"drop_stream", "flush_residuals", "log_sample_diagnostics", "clear">>

\* stop_step whose last statement marks the backend Idle.
stop_step_marks_idle(name, b, h, k) ==
    CASE name = "drop_stream" ->
            [b |-> [b EXCEPT !.stream = {}], h |-> h, chunks |-> <<>>, out |-> 0]
      [] name = "flush_residuals" ->
            IF b.callback_state = {} THEN [b |-> b, h |-> h, chunks |-> <<>>, out |-> 0]
            ELSE LET f == flush_residuals(CHOOSE cs \in b.callback_state : TRUE, h, k)
                 IN [b |-> [b EXCEPT !.callback_state = {f.cs}], h |-> f.h,
                     chunks |-> f.chunks, out |-> f.out]
      [] name = "log_sample_diagnostics" ->
            [b |-> b, h |-> h, chunks |-> <<>>, out |-> 0]
      [] name = "clear" ->
            [b |-> [b EXCEPT !.callback_state = {}, !.state = "Idle"], h |-> h,
             chunks |-> <<>>, out |-> 0]

\* One statement of CpalBackend::stop. k: the resampler's output for the flush.
stop_step(name, b, h, k) ==
    CASE name = "drop_stream" ->
            \* cpal_backend.rs:446-452
            [b |-> [b EXCEPT !.stream = {}], h |-> h, chunks |-> <<>>, out |-> 0]
      [] name = "flush_residuals" ->
            \* cpal_backend.rs:456-457
            IF b.callback_state = {} THEN [b |-> b, h |-> h, chunks |-> <<>>, out |-> 0]
            ELSE LET f == flush_residuals(CHOOSE cs \in b.callback_state : TRUE, h, k)
                 IN [b |-> [b EXCEPT !.callback_state = {f.cs}], h |-> f.h,
                     chunks |-> f.chunks, out |-> f.out]
      [] name = "log_sample_diagnostics" ->
            \* cpal_backend.rs:458
            [b |-> b, h |-> h, chunks |-> <<>>, out |-> 0]
      [] name = "clear" ->
            \* cpal_backend.rs:462-463
            [b |-> [b EXCEPT !.callback_state = {}, !.state = "Stopped"], h |-> h,
             chunks |-> <<>>, out |-> 0]

\* CpalBackend::stop as a whole (cpal_backend.rs:442-465).
RECURSIVE stop_from(_, _, _, _)
stop_from(i, b, h, k) ==
    IF i > Len(StopOrder) THEN [b |-> b, h |-> h]
    ELSE LET r == stop_step(StopOrder[i], b, h, k) IN stop_from(i + 1, r.b, r.h, k)

cpal_stop(b, h, k) == stop_from(1, b, h, k)

SetCpal(b) ==
    /\ cpal_state' = b.state
    /\ stream' = b.stream
    /\ callback_state' = b.callback_state


\* ------------------------------------------------- RecordingCoordinator

Call(fn, samples, ok) == [fn |-> fn, samples |-> samples, ok |-> ok]

\* StartRejected that only rejects while Recording.
StartRejectedOnlyRecording(m) == m.state = "Recording"

\* coordinator.rs:91, "reject if not idle".
StartRejected(m) == m.state # "Idle"

\* StopRejected that only rejects while Idle.
StopRejectedOnlyIdle(m) == m.state = "Idle"

\* coordinator.rs:120, "check if currently recording".
StopRejected(m) == m.state # "Recording"

\* encoding_error that gives up the recording: back to Idle, buffer dropped.
encoding_error_discards(c, cs, tr) ==
    [c |-> [c EXCEPT !.m = reset_to_idle(c.m)],
     ret |-> [tag |-> "EncodingError"], calls |-> cs,
     trail |-> tr \o Change(c.m, reset_to_idle(c.m), "reset_to_idle")]

\* coordinator.rs:143-145: encode_wav failed and `?` returns at once; the
\* coordinator stays as it is (in Processing, holding the buffer).
\* cs: the calls made so far, tr: the state changes made so far.
encoding_error(c, cs, tr) ==
    [c |-> c, ret |-> [tag |-> "EncodingError"], calls |-> cs, trail |-> tr]

StateError(e) == [tag |-> "StateError", err |-> e]

\* The duration computed at the default rate.
duration_secs_at_default_rate(c, sample_count) ==
    [num |-> sample_count, den |-> DEFAULT_SAMPLE_RATE]

\* coordinator.rs:148: `sample_count as f64 / self.sample_rate as f64`, kept
\* as the quotient num / den that the f64 result is the rounding of.
duration_secs(c, sample_count) == [num |-> sample_count, den |-> c.sample_rate]

\* coordinator.rs:89-113. startOk: whether the capture backend's start
\* succeeds (AudioCaptureBackend::start, audio/mod.rs:97; the mock of
\* coordinator_test.rs:51-65 fails with NoDeviceAvailable).
\* c: [m, bstate, bbuf], the coordinator's manager and its backend.
start_recording(c, h, startOk) ==
    IF StartRejected(c.m)
    THEN [c |-> c, ret |-> [tag |-> "AlreadyRecording"], calls |-> <<>>,
          trail |-> <<>>]
    ELSE LET t == transition_to(c.m, h, c.m.audio_buffer \cup c.bbuf, "Recording")
             tr == Change(c.m, t.m, "transition_to")
             buffer == get_audio_buffer(t.m)
         IN IF t.res.tag # "Ok"
            THEN [c |-> c, ret |-> StateError(t.res), calls |-> <<>>, trail |-> tr]
            ELSE IF buffer = {}
            THEN [c |-> [c EXCEPT !.m = t.m],
                  ret |-> StateError([tag |-> "NoAudioBuffer"]),
                  calls |-> <<>>, trail |-> tr]
            ELSE IF startOk
            THEN [c |-> [c EXCEPT !.m = t.m, !.bstate = "Capturing", !.bbuf = buffer],
                  ret |-> Ok,
                  calls |-> <<Call("backend.start", <<>>, TRUE)>>,
                  trail |-> tr]
            ELSE \* rollback on failure
                 [c |-> [c EXCEPT !.m = reset_to_idle(t.m)],
                  ret |-> [tag |-> "CaptureError"],
                  calls |-> <<Call("backend.start", <<>>, FALSE)>>,
                  trail |-> tr \o Change(t.m, reset_to_idle(t.m), "reset_to_idle")]

\* coordinator.rs:118-160. stopOk: whether the backend's stop succeeds;
\* encodeOk: whether encode_wav (the external encoder) succeeds.
stop_recording(c, h, stopOk, encodeOk) ==
    IF StopRejected(c.m)
    THEN [c |-> c, ret |-> [tag |-> "NotRecording"], calls |-> <<>>,
          trail |-> <<>>]
    ELSE IF ~stopOk
    THEN [c |-> c, ret |-> [tag |-> "CaptureError"],
          calls |-> <<Call("backend.stop", <<>>, FALSE)>>, trail |-> <<>>]
    ELSE LET t == transition_to(c.m, h, c.m.audio_buffer \cup c.bbuf, "Processing")
             tr == Change(c.m, t.m, "transition_to")
             buffer == get_audio_buffer(t.m)
             stopped == [c EXCEPT !.bstate = "Stopped"]
             cstop == <<Call("backend.stop", <<>>, TRUE)>>
         IN IF t.res.tag # "Ok"
            THEN [c |-> stopped, ret |-> StateError(t.res),
                  calls |-> cstop, trail |-> tr]
            ELSE IF buffer = {}
            THEN [c |-> [stopped EXCEPT !.m = t.m],
                  ret |-> StateError([tag |-> "NoAudioBuffer"]),
                  calls |-> cstop, trail |-> tr]
            ELSE LET samples == h[CHOOSE b \in buffer : TRUE]
                     cs == cstop \o <<Call("encode_wav", samples, encodeOk)>>
                 IN IF ~encodeOk
                    THEN \* stay in Processing on failure
                         encoding_error([stopped EXCEPT !.m = t.m], cs, tr)
                    ELSE LET u == transition_to(t.m, h, t.m.audio_buffer \cup c.bbuf,
                                                "Idle")
                             tr2 == tr \o Change(t.m, u.m, "transition_to")
                         IN
                         IF u.res.tag # "Ok"
                         THEN [c |-> [stopped EXCEPT !.m = t.m],
                               ret |-> StateError(u.res),
                               calls |-> cs, trail |-> tr2]
                         ELSE [c |-> [stopped EXCEPT !.m = u.m],
                               ret |-> [tag |-> "Ok", sample_count |-> Len(samples),
                                        duration_secs |-> duration_secs(c, Len(samples))],
                               calls |-> cs, trail |-> tr2]

Coordinator ==
    [m |-> Manager, bstate |-> backend_state, bbuf |-> backend_buffer,
     sample_rate |-> sample_rate]


SetCoordinator(c) ==
    /\ SetManager(c.m)
    /\ backend_state' = c.bstate
    /\ backend_buffer' = c.bbuf
    /\ sample_rate' = c.sample_rate

\* RecordingCoordinator::start_recording (coordinator.rs:89-113)
StartRecording ==
    /\ state = "Idle" => CanAllocate
    /\ \E startOk \in BOOLEAN :
        LET r == start_recording(Coordinator, heap, startOk) IN
        /\ SetCoordinator(r.c)
        /\ ret' = r.ret
        /\ trail' = r.trail
        /\ calls' = r.calls
    /\ Called("start_recording", "-")
    /\ UNCHANGED <<escVars, raceVars, diagVars, implVars, silenceVars, threadVars, cpalVars>>
    /\ Release(heap)

\* RecordingCoordinator::stop_recording (coordinator.rs:118-160)
StopRecording ==
    /\ \E stopOk \in BOOLEAN, encodeOk \in BOOLEAN :
        LET r == stop_recording(Coordinator, heap, stopOk, encodeOk) IN
        /\ SetCoordinator(r.c)
        /\ ret' = r.ret
        /\ trail' = r.trail
        /\ calls' = r.calls
    /\ Called("stop_recording", "-")
    /\ UNCHANGED <<escVars, raceVars, diagVars, implVars, silenceVars, threadVars, cpalVars>>
    /\ Release(heap)

\* The rates a coordinator is built with besides the default one.
SampleRates == 1..MaxSamples

\* RecordingCoordinator::with_sample_rate (coordinator.rs:77-80), applied to
\* the coordinator just built.
WithSampleRate ==
    /\ op = "new"
    /\ \E r \in SampleRates : sample_rate' = r
    /\ Called("with_sample_rate", "-")
    /\ ret' = Ok
    /\ trail' = <<>>
    /\ calls' = <<>>
    /\ UNCHANGED <<escVars, raceVars, diagVars, implVars, silenceVars, mgrVars, heap, backend_state, backend_buffer, threadVars, cpalVars>>

\* The capture backend, while capturing, appends samples to the buffer it
\* was started with (coordinator_test.rs:56-60; cpal_backend.rs:180).
CaptureSamples(v) ==
    /\ backend_state = "Capturing"
    /\ \E b \in backend_buffer :
        /\ Len(heap[b]) < MaxSamples
        /\ heap' = [heap EXCEPT ![b] = Append(@, v)]
    /\ Called("capture", "-")
    /\ trail' = <<>>
    /\ ret' = Ok
    /\ calls' = <<>>
    /\ UNCHANGED <<escVars, raceVars, diagVars, implVars, silenceVars, mgrVars, coordVars, threadVars, cpalVars>>

\* ------------------------------------------------------ audio thread (pure)

Start(buffer) == [cmd |-> "Start", buffer |-> {buffer}]
Stop == [cmd |-> "Stop", buffer |-> {}]
Shutdown == [cmd |-> "Shutdown", buffer |-> {}]

\* A send that puts the command in front of those waiting.
sender_send_in_front(q, running, command) ==
    IF running
    THEN [q |-> <<command>> \o q, ok |-> TRUE]
    ELSE [q |-> q, ok |-> FALSE]

\* A send that succeeds whether or not the receiver exists.
sender_send_unchecked(q, running, command) ==
    [q |-> Append(q, command), ok |-> TRUE]

\* `self.sender.send(command).map_err(|_| ThreadDisconnected)` of
\* AudioThreadHandle::start, stop and shutdown (thread.rs:50-68): the
\* command is enqueued, which fails only once the receiver is gone.
\* q: the channel's contents, running: whether the receiver exists.
sender_send(q, running, command) ==
    IF running
    THEN [q |-> Append(q, command), ok |-> TRUE]
    ELSE [q |-> q, ok |-> FALSE]

\* The loop that stops the backend on Shutdown and goes on receiving.
audio_thread_main_without_break(command, b, h, outcome, k) ==
    CASE command.cmd = "Start" ->
            LET r == cpal_start(b, CHOOSE x \in command.buffer : TRUE, FALSE, outcome)
            IN [b |-> r.b, h |-> h, ok |-> r.ok, running |-> TRUE]
      [] OTHER ->
            LET r == cpal_stop(b, h, k)
            IN [b |-> r.b, h |-> r.h, ok |-> TRUE, running |-> TRUE]

\* One iteration of audio_thread_main's loop (thread.rs:89-110) on the
\* command received. b: the thread's CpalBackend; outcome, k: what the
\* device and the resampler do. A failure of backend.start is only printed.
audio_thread_main(command, b, h, outcome, k) ==
    CASE command.cmd = "Start" ->
            LET r == cpal_start(b, CHOOSE x \in command.buffer : TRUE, FALSE, outcome)
            IN [b |-> r.b, h |-> h, ok |-> r.ok, running |-> TRUE]
      [] command.cmd = "Stop" ->
            LET r == cpal_stop(b, h, k)
            IN [b |-> r.b, h |-> r.h, ok |-> TRUE, running |-> TRUE]
      [] command.cmd = "Shutdown" ->
            LET r == cpal_stop(b, h, k)
            IN [b |-> r.b, h |-> r.h, ok |-> TRUE, running |-> FALSE]

\* ------------------------------------------------------ commands (pure)

Err(e) == [tag |-> e]

\* start_recording_impl (logic.rs:47-85). manager.start_recording is the
\* transition to Recording, which creates the buffer, and hands that buffer
\* out. m: the manager behind the mutex, q and running: the audio thread's
\* channel, withThread: whether an AudioThreadHandle was passed.
start_recording_impl(m, h, live, q, running, withThread) ==
    IF m.state # "Idle"
    THEN [m |-> m, q |-> q, ret |-> Err("AlreadyRecording"), trail |-> <<>>]
    ELSE
        LET t == transition_to(m, h, live, "Recording")
            t1 == Change(m, t.m, "transition_to")
            buffer == CHOOSE x \in get_audio_buffer(t.m) : TRUE
            s == sender_send(q, running, Start(buffer))
            back == reset_to_idle(t.m)
        IN CASE ~withThread ->
                    [m |-> t.m, q |-> q, ret |-> Ok, trail |-> t1]
             [] withThread /\ s.ok ->
                    [m |-> t.m, q |-> s.q, ret |-> Ok, trail |-> t1]
             [] withThread /\ ~s.ok ->
                    [m |-> back, q |-> q, ret |-> Err("MicrophoneError"),
                     trail |-> t1 \o Change(t.m, back, "reset_to_idle")]

\* stop_recording_impl (logic.rs:102-167). encodeOk: whether encode_wav
\* with the SystemFileWriter succeeds.
stop_recording_impl(m, h, live, q, running, withThread, encodeOk) ==
    IF m.state # "Recording"
    THEN [m |-> m, q |-> q, ret |-> Err("NotRecording"), trail |-> <<>>]
    ELSE
        LET s == IF withThread THEN sender_send(q, running, Stop)
                 ELSE [q |-> q, ok |-> FALSE]
            t == transition_to(m, h, live, "Processing")
            t1 == Change(m, t.m, "transition_to")
            buffer == get_audio_buffer(t.m)
            samples == h[CHOOSE x \in buffer : TRUE]
            u == transition_to(t.m, h, live, "Idle")
        IN CASE buffer = {} ->
                    [m |-> t.m, q |-> s.q, ret |-> Err("NoAudio"), trail |-> t1]
             [] buffer # {} /\ samples # <<>> /\ ~encodeOk ->
                    [m |-> t.m, q |-> s.q, ret |-> Err("SaveFailed"), trail |-> t1]
             [] OTHER ->
                    [m |-> u.m, q |-> s.q,
                     ret |-> [tag |-> "Ok", sample_count |-> Len(samples),
                              encoded |-> samples # <<>>],
                     trail |-> t1 \o Change(t.m, u.m, "transition_to")]

\* ------------------------------------------------------ commands (actions)

SetThread(m, q) ==
    /\ SetManager(m)
    /\ queue' = q

\* start_recording_impl (logic.rs:47-85), with or without an audio thread.
StartRecordingImpl ==
    /\ state = "Idle" => CanAllocate /\ Len(queue) < MaxQueue
    /\ \E withThread \in BOOLEAN, live \in {LiveHandles} :
        LET r == start_recording_impl(Manager, heap, live, queue,
                                      thread_running, withThread) IN
        /\ SetThread(r.m, r.q)
        /\ ret' = r.ret
        /\ trail' = r.trail
    /\ Called("start_recording_impl", "-")
    /\ calls' = <<>>
    /\ UNCHANGED <<escVars, raceVars, diagVars, implVars, silenceVars, coordVars, thread_running, thread_log, cpalVars>>
    /\ Release(heap)

\* stop_recording_impl (logic.rs:102-167)
StopRecordingImpl ==
    /\ state = "Recording" => Len(queue) < MaxQueue
    /\ \E withThread \in BOOLEAN, encodeOk \in BOOLEAN, live \in {LiveHandles} :
        LET r == stop_recording_impl(Manager, heap, live, queue,
                                     thread_running, withThread, encodeOk) IN
        /\ SetThread(r.m, r.q)
        /\ ret' = r.ret
        /\ trail' = r.trail
    /\ Called("stop_recording_impl", "-")
    /\ calls' = <<>>
    /\ UNCHANGED <<escVars, raceVars, diagVars, implVars, silenceVars, coordVars, thread_running, thread_log, cpalVars>>
    /\ Release(heap)

\* --------------------------------- stop_recording_impl, lock by lock

\* start_recording_impl without an audio thread (logic.rs:47-85): the
\* state mutex is taken at line 51 and released on return.
StartRecordingImplLocked ==
    /\ state_lock = {}
    /\ state = "Idle" => CanAllocate
    /\ \E live \in {LiveHandles} :
        LET r == start_recording_impl(Manager, heap, live, queue,
                                      thread_running, FALSE) IN
        /\ SetManager(r.m)
        /\ ret' = r.ret
        /\ trail' = r.trail
    /\ Called("start_recording_impl", "-")
    /\ calls' = <<>>
    /\ UNCHANGED <<escVars, raceVars, diagVars, implVars, silenceVars, coordVars, threadVars, cpalVars>>
    /\ Release(heap)

\* The capture side locks the session's buffer, pushes a sample and
\* unlocks it (audio/mod.rs:32-34).
WriteAudioBufferLocked(v) ==
    /\ buffer_lock = {}
    /\ WriteAudioBuffer(v)

\* get_recording_state_impl (logic.rs:176-185): takes the state mutex,
\* reads the state and releases the mutex.
GetRecordingStateImpl ==
    /\ state_lock = {}
    /\ Called("get_recording_state_impl", "-")
    /\ ret' = [tag |-> "Ok", state |-> state]
    /\ trail' = <<>>
    /\ calls' = <<>>
    /\ UNCHANGED <<escVars, raceVars, diagVars, implVars, silenceVars, mgrVars, heap, coordVars, threadVars, cpalVars>>

\* stop_recording_impl, line 106: `let mut manager = state.lock()`.
StopImplLock ==
    /\ impl_pc = "idle"
    /\ state_lock = {}
    /\ state_lock' = {"stop_recording_impl"}
    /\ impl_pc' = "locked"
    /\ Called("stop_recording_impl.lock", "-")
    /\ ret' = Ok
    /\ trail' = <<>>
    /\ calls' = <<>>
    /\ UNCHANGED <<escVars, raceVars, diagVars, buffer_lock, impl_samples, silenceVars, mgrVars, heap, coordVars,
                   threadVars, cpalVars>>

\* Lines 111-135 without an audio thread: the state check, the transition
\* to Processing, get_audio_buffer and buffer.lock(). An early return
\* drops the guard `manager`.
StopImplBegin ==
    /\ impl_pc = "locked"
    /\ Called("stop_recording_impl.begin", "-")
    /\ calls' = <<>>
    /\ \E live \in {LiveHandles} :
        LET t == transition_to(Manager, heap, live, "Processing")
            buffer == get_audio_buffer(t.m)
        IN IF state # "Recording"
           THEN /\ ret' = Err("NotRecording")
                /\ trail' = <<>>
                /\ state_lock' = {}
                /\ impl_pc' = "idle"
                /\ UNCHANGED <<escVars, raceVars, diagVars, mgrVars, buffer_lock>>
           ELSE IF buffer = {}
           THEN /\ ret' = Err("NoAudio")
                /\ trail' = Change(Manager, t.m, "transition_to")
                /\ SetManager(t.m)
                /\ state_lock' = {}
                /\ impl_pc' = "idle"
                /\ UNCHANGED buffer_lock
           ELSE /\ buffer_lock = {}
                /\ ret' = Ok
                /\ trail' = Change(Manager, t.m, "transition_to")
                /\ SetManager(t.m)
                /\ buffer_lock' = {"stop_recording_impl"}
                /\ impl_pc' = "buffer_locked"
                /\ UNCHANGED state_lock
    /\ UNCHANGED <<escVars, raceVars, diagVars, impl_samples, silenceVars, heap, coordVars, threadVars, cpalVars>>

\* Lines 134-143: the samples are cloned and the buffer's guard, a
\* temporary, is dropped at the end of the statement; with samples,
\* encode_wav is entered.
StopImplClone ==
    /\ impl_pc = "buffer_locked"
    /\ \E b \in audio_buffer :
        /\ impl_samples' = heap[b]
        /\ impl_pc' = IF heap[b] # <<>> THEN "encoding" ELSE "finishing"
    /\ buffer_lock' = {}
    /\ Called("stop_recording_impl.clone", "-")
    /\ ret' = Ok
    /\ trail' = <<>>
    /\ calls' = <<>>
    /\ UNCHANGED <<escVars, raceVars, diagVars, state_lock, silenceVars, mgrVars, heap, coordVars, threadVars, cpalVars>>

\* Lines 143-144: encode_wav returns; its error returns from the command,
\* which drops the guard `manager`.
StopImplEncoded ==
    /\ impl_pc = "encoding"
    /\ \E encodeOk \in BOOLEAN :
        /\ calls' = <<Call("encode_wav", impl_samples, encodeOk)>>
        /\ ret' = IF encodeOk THEN Ok ELSE Err("SaveFailed")
        /\ impl_pc' = IF encodeOk THEN "finishing" ELSE "idle"
        /\ state_lock' = IF encodeOk THEN state_lock ELSE {}
    /\ Called("stop_recording_impl.encoded", "-")
    /\ trail' = <<>>
    /\ UNCHANGED <<escVars, raceVars, diagVars, buffer_lock, impl_samples, silenceVars, mgrVars, heap, coordVars,
                   threadVars, cpalVars>>

\* Lines 150-167: the transition to Idle and the return, which drops the
\* guard `manager`.
StopImplFinish ==
    /\ impl_pc = "finishing"
    /\ \E live \in {LiveHandles} :
        LET u == transition_to(Manager, heap, live, "Idle") IN
        /\ SetManager(u.m)
        /\ trail' = Change(Manager, u.m, "transition_to")
        /\ ret' = [tag |-> "Ok", sample_count |-> Len(impl_samples),
                   encoded |-> impl_samples # <<>>]
    /\ state_lock' = {}
    /\ impl_pc' = "idle"
    /\ Called("stop_recording_impl", "-")
    /\ calls' = <<>>
    /\ UNCHANGED <<escVars, raceVars, diagVars, buffer_lock, impl_samples, silenceVars, coordVars, threadVars, cpalVars>>
    /\ Release(heap)

\* AudioThreadHandle::start (thread.rs:50-54) called with a buffer the
\* caller has just created.
HandleStart ==
    /\ CanAllocate
    /\ Len(queue) < MaxQueue
    /\ \E live \in {LiveHandles} :
        LET s == sender_send(queue, thread_running, Start(AudioBuffer_new(live))) IN
        /\ queue' = s.q
        /\ ret' = IF s.ok THEN Ok ELSE Err("ThreadDisconnected")
    /\ Called("handle_start", "-")
    /\ trail' = <<>>
    /\ calls' = <<>>
    /\ UNCHANGED <<escVars, raceVars, diagVars, implVars, silenceVars, mgrVars, heap, coordVars, thread_running,
                   thread_log, cpalVars>>

\* AudioThreadHandle::stop (thread.rs:57-61)
HandleStop ==
    /\ Len(queue) < MaxQueue
    /\ LET s == sender_send(queue, thread_running, Stop) IN
        /\ queue' = s.q
        /\ ret' = IF s.ok THEN Ok ELSE Err("ThreadDisconnected")
    /\ Called("handle_stop", "-")
    /\ trail' = <<>>
    /\ calls' = <<>>
    /\ UNCHANGED <<escVars, raceVars, diagVars, implVars, silenceVars, mgrVars, heap, coordVars, thread_running,
                   thread_log, cpalVars>>

\* AudioThreadHandle::shutdown (thread.rs:64-68)
ThreadShutdown ==
    /\ Len(queue) < MaxQueue
    /\ LET s == sender_send(queue, thread_running, Shutdown) IN
        /\ queue' = s.q
        /\ ret' = IF s.ok THEN Ok ELSE Err("ThreadDisconnected")
    /\ Called("shutdown", "-")
    /\ trail' = <<>>
    /\ calls' = <<>>
    /\ UNCHANGED <<escVars, raceVars, diagVars, implVars, silenceVars, mgrVars, heap, coordVars, thread_running, thread_log, cpalVars>>

\* audio_thread_main receives the next command and handles it
\* (thread.rs:89-110); after Shutdown it returns, which drops the receiver
\* and the commands still in the channel.
AudioThreadRecv ==
    /\ thread_running
    /\ queue # <<>>
    /\ Called("audio_thread", "-")
    /\ ret' = Ok
    /\ trail' = <<>>
    /\ UNCHANGED <<escVars, raceVars, diagVars, implVars, silenceVars, mgrVars, coordVars, cb_pc, cb_reason, cb_input, err_pc, stop_pc, stop_trace>>
    /\ \E outcome \in IF Head(queue).cmd = "Start" THEN StartOutcomes
                      ELSE {CHOOSE o \in StartOutcomes : TRUE},
          k \in UNION ({ResamplerOutputs(cs) : cs \in callback_state} \cup {{0}}) :
        LET command == Head(queue)
            r == audio_thread_main(command, Cpal, heap, outcome, k)
        IN
        /\ SetCpal(r.b)
        /\ stop_channel' = IF command.cmd = "Start" /\ r.ok THEN <<>> ELSE stop_channel
        /\ thread_running' = r.running
        /\ queue' = IF r.running THEN Tail(queue) ELSE <<>>
        /\ thread_log' = [cmd |-> command.cmd, buffer |-> command.buffer, ok |-> r.ok]
        /\ calls' = <<Call(IF command.cmd = "Start" THEN "backend.start"
                           ELSE "backend.stop", <<>>, r.ok)>>
        /\ Release(r.h)

\* The device delivers samples to the running stream's data callback
\* (cpal_backend.rs:384-387).
DataCallback ==
    /\ stream # {}
    /\ \E cs \in callback_state :
       \E input \in Inputs(cs.input_sample_count), k \in ResamplerOutputs(cs) :
        /\ cs.input_sample_count + Len(input) <= MaxSessionInput
        /\ LET r == data_callback(cs, heap, stop_channel, input, k) IN
            /\ callback_state' = {r.cs}
            /\ heap' = r.h
            /\ stop_channel' = r.chan
    /\ Called("data_callback", "-")
    /\ ret' = Ok
    /\ trail' = <<>>
    /\ calls' = <<>>
    /\ UNCHANGED <<escVars, raceVars, diagVars, implVars, silenceVars, mgrVars, coordVars, threadVars, cpal_state, stream,
                   cb_pc, cb_reason, cb_input, err_pc, stop_pc, stop_trace>>

\* The device reports a stream error to the running stream's error
\* callback (cpal_backend.rs:344-354).
StreamError ==
    /\ stream # {}
    /\ \E cs \in callback_state :
        LET r == err_fn(cs, stop_channel) IN
        /\ callback_state' = {r.cs}
        /\ stop_channel' = r.chan
    /\ Called("err_fn", "-")
    /\ ret' = Ok
    /\ trail' = <<>>
    /\ calls' = <<>>
    /\ UNCHANGED <<escVars, raceVars, diagVars, implVars, silenceVars, mgrVars, heap, coordVars, threadVars, cpal_state, stream,
                   cb_pc, cb_reason, cb_input, err_pc, stop_pc, stop_trace>>

\* --------------------------------------------- CpalBackend, step by step

\* What a statement of CpalBackend::stop, or a data callback that runs
\* during stop, meets: whether the stream exists, whether a data callback
\* is inside process_samples, whether the CallbackState is still held and
\* whether samples wait in its resample buffer, and the capture state.
Met(stmt) ==
    [stmt |-> stmt,
     stream |-> stream # {},
     busy |-> cb_pc # "idle",
     state |-> callback_state # {},
     residual |-> \E cs \in callback_state : cs.resample_buffer # <<>>,
     capture |-> cpal_state]

\* CpalBackend::start called by the backend's owner with a new buffer
\* (cpal_backend.rs:266-440). Assigning self.stream drops the stream of a
\* session still running, which waits for its callbacks to return.
CpalStart ==
    /\ stop_pc = 0
    /\ Called("start", "-")
    /\ trail' = <<>>
    /\ calls' = <<>>
    /\ UNCHANGED <<escVars, raceVars, diagVars, implVars, silenceVars, mgrVars, coordVars, threadVars,
                   cb_pc, cb_reason, cb_input, err_pc, stop_pc, stop_trace>>
    /\ \E outcome \in StartOutcomes, hasSignal \in BOOLEAN, live \in {LiveHandles} :
        /\ outcome.ok => /\ CanAllocate
                         /\ stream # {} => cb_pc = "idle" /\ err_pc = "idle"
        /\ LET r == cpal_start(Cpal, AudioBuffer_new(live), hasSignal, outcome) IN
            /\ SetCpal(r.b)
            /\ stop_channel' = IF r.ok THEN <<>> ELSE stop_channel
            /\ ret' = IF r.ok THEN Ok ELSE Err(outcome.err)
    /\ Release(heap)

\* The next statement of CpalBackend::stop (cpal_backend.rs:442-465).
\* Dropping the stream waits for the callbacks that are running.
CpalStopStep ==
    LET i == IF stop_pc = 0 THEN 1 ELSE stop_pc
        stmt == StopOrder[i]
    IN
    /\ (stmt = "drop_stream" /\ stream # {}) => cb_pc = "idle" /\ err_pc = "idle"
    /\ Called(stmt, "-")
    /\ trail' = <<>>
    /\ stop_pc' = IF i = Len(StopOrder) THEN 0 ELSE i + 1
    /\ stop_trace' = IF i = 1 THEN <<Met(stmt)>> ELSE Append(stop_trace, Met(stmt))
    /\ UNCHANGED <<escVars, raceVars, diagVars, implVars, silenceVars, mgrVars, coordVars, threadVars, stop_channel,
                   cb_pc, cb_reason, cb_input, err_pc>>
    /\ \E k \in IF stmt = "flush_residuals"
                THEN UNION ({ResamplerOutputs(cs) : cs \in callback_state} \cup {{0}})
                ELSE {0} :
        LET r == stop_step(stmt, Cpal, heap, k) IN
        /\ SetCpal(r.b)
        /\ ret' = [tag |-> "Ok", resampled |-> r.out]
        /\ calls' = [n \in 1..Len(r.chunks) |-> Call("resampler.process", r.chunks[n], TRUE)]
        /\ Release(r.h)

\* The data callback runs process_samples up to the point where it has
\* found a stop condition or is done (cpal_backend.rs:110-189).
CallbackProcess ==
    /\ stream # {}
    /\ cb_pc = "idle"
    /\ \E cs \in callback_state :
       \E input \in Inputs(cs.input_sample_count), k \in ResamplerOutputs(cs) :
        /\ cs.input_sample_count + Len(input) <= MaxSessionInput
        /\ LET r == process_samples(cs, heap, input, k) IN
            /\ callback_state' = {r.cs}
            /\ heap' = r.h
            /\ cb_reason' = r.reason
            /\ cb_input' = input
            /\ calls' = [i \in 1..Len(r.chunks) |->
                            Call("resampler.process", r.chunks[i], TRUE)]
            /\ cb_pc' = IF r.reason = {} THEN "idle" ELSE "swap"
    /\ stop_trace' = IF stop_pc = 0 THEN stop_trace
                     ELSE Append(stop_trace, Met("process_samples"))
    /\ Called("process_samples", "-")
    /\ ret' = Ok
    /\ trail' = <<>>
    /\ UNCHANGED <<escVars, raceVars, diagVars, implVars, silenceVars, mgrVars, coordVars, threadVars, cpal_state, stream,
                   stop_channel, err_pc, stop_pc>>

\* `self.signaled.swap(true, Ordering::SeqCst)` in the data callback
\* (cpal_backend.rs:124, 168, 183).
CallbackSwap ==
    /\ cb_pc = "swap"
    /\ \E cs \in callback_state :
        LET w == swap(cs.signaled) IN
        /\ callback_state' = {[cs EXCEPT !.signaled = w.new]}
        /\ cb_pc' = IF w.old THEN "idle" ELSE "send"
        /\ cb_reason' = IF w.old THEN {} ELSE cb_reason
        /\ ret' = [tag |-> IF w.old THEN "AlreadySignaled" ELSE "Ok",
                   reason |-> CHOOSE x \in cb_reason : TRUE]
    /\ Called("callback_swap", "-")
    /\ trail' = <<>>
    /\ calls' = <<>>
    /\ UNCHANGED <<escVars, raceVars, diagVars, implVars, silenceVars, mgrVars, heap, coordVars, threadVars, cpal_state, stream,
                   stop_channel, cb_input, err_pc, stop_pc, stop_trace>>

\* `sender.send(reason)` in the data callback (cpal_backend.rs:125-127,
\* 169-171, 184-186).
CallbackSend ==
    /\ cb_pc = "send"
    /\ \E cs \in callback_state, reason \in cb_reason :
        /\ stop_channel' = send(cs, stop_channel, reason)
        /\ ret' = [tag |-> IF cs.stop_signal THEN "Sent" ELSE "NoChannel",
                   reason |-> reason]
    /\ cb_pc' = "idle"
    /\ cb_reason' = {}
    /\ Called("callback_send", "-")
    /\ trail' = <<>>
    /\ calls' = <<>>
    /\ UNCHANGED <<escVars, raceVars, diagVars, implVars, silenceVars, mgrVars, heap, coordVars, threadVars, cpal_state, stream,
                   callback_state, cb_input, err_pc, stop_pc, stop_trace>>

\* The stream reports an error: err_fn is entered (cpal_backend.rs:346-347).
ErrorBegin ==
    /\ stream # {}
    /\ err_pc = "idle"
    /\ err_pc' = "swap"
    /\ Called("err_fn", "-")
    /\ ret' = Ok
    /\ trail' = <<>>
    /\ calls' = <<>>
    /\ UNCHANGED <<escVars, raceVars, diagVars, implVars, silenceVars, mgrVars, heap, coordVars, threadVars, cpal_state, stream,
                   callback_state, stop_channel, cb_pc, cb_reason, cb_input, stop_pc, stop_trace>>

\* `err_signaled.swap(true, Ordering::SeqCst)` (cpal_backend.rs:349)
ErrorSwap ==
    /\ err_pc = "swap"
    /\ \E cs \in callback_state :
        LET w == swap(cs.signaled) IN
        /\ callback_state' = {[cs EXCEPT !.signaled = w.new]}
        /\ err_pc' = IF w.old THEN "idle" ELSE "send"
        /\ ret' = IF w.old THEN Err("AlreadySignaled") ELSE Ok
    /\ Called("error_swap", "-")
    /\ trail' = <<>>
    /\ calls' = <<>>
    /\ UNCHANGED <<escVars, raceVars, diagVars, implVars, silenceVars, mgrVars, heap, coordVars, threadVars, cpal_state, stream,
                   stop_channel, cb_pc, cb_reason, cb_input, stop_pc, stop_trace>>

\* `sender.send(StopReason::StreamError)` (cpal_backend.rs:350-352)
ErrorSend ==
    /\ err_pc = "send"
    /\ \E cs \in callback_state :
        stop_channel' = send(cs, stop_channel, "StreamError")
    /\ err_pc' = "idle"
    /\ Called("error_send", "-")
    /\ ret' = Ok
    /\ trail' = <<>>
    /\ calls' = <<>>
    /\ UNCHANGED <<escVars, raceVars, diagVars, implVars, silenceVars, mgrVars, heap, coordVars, threadVars, cpal_state, stream,
                   callback_state, cb_pc, cb_reason, cb_input, stop_pc, stop_trace>>

\* The Mutexes of a CallbackState (cpal_backend.rs:93-95).
Locks == {"resample_buffer", "chunk_buffer", "resampler"}

\* A thread panics while it holds one of the session's locks, which
\* poisons it: from then on lock() returns Err (cpal_backend.rs:116-119,
\* 137, 140, 201-204, 217).
PoisonLock ==
    /\ stream # {}
    /\ cb_pc = "idle"
    /\ \E cs \in callback_state, l \in Locks :
        /\ cs.poisoned = {}
        /\ cs.input_sample_count = 0
        /\ callback_state' = {[cs EXCEPT !.poisoned = @ \cup {l}]}
        /\ arg' = l
    /\ op' = "panic"
    /\ prev_state' = state
    /\ ret' = Ok
    /\ trail' = <<>>
    /\ calls' = <<>>
    /\ UNCHANGED <<escVars, raceVars, diagVars, implVars, silenceVars, mgrVars, heap, coordVars, threadVars, cpal_state, stream,
                   stop_channel, cb_pc, cb_reason, cb_input, err_pc, stop_pc, stop_trace>>

\* ------------------------------------------------------- SilenceDetector

\* SilenceConfig (silence.rs:20-32) with the durations scaled down to a few
\* milliseconds; the VAD threshold is in tenths (0.5).
SilenceConfigs ==
    [vad_speech_threshold : {5},
     silence_duration_ms : {1, 2},
     no_speech_timeout_ms : {2, 3}]

\* The speech probabilities vad.predict gives, in tenths.
Probabilities == {4, 5}

\* A frame of samples as check_vad sees it (silence.rs:153-154): the
\* probability the VAD gives each whole chunk of 512 samples, and whether
\* a shorter chunk, which is skipped, follows them.
AudioFrames ==
    {[chunks |-> c, partial |-> t] :
        c \in {<<>>} \cup {<<x>> : x \in Probabilities}
                \cup {<<x, y>> : x \in Probabilities, y \in Probabilities},
        t \in BOOLEAN}

Continue == [tag |-> "Continue"]
StopDetection(reason) == [tag |-> "Stop", reason |-> reason]

\* SilenceDetector::with_config (silence.rs:81-105). vadOk: whether
\* create_vad succeeded; now: Instant::now().
with_config(config, vadOk, now) ==
    [config |-> config,
     has_detected_speech |-> FALSE,
     silence_start |-> {},
     recording_start |-> now,
     vad |-> vadOk]

\* A reset that leaves has_detected_speech as it was.
reset_keeps_speech(d, vadOk, now) ==
    [d EXCEPT !.silence_start = {},
              !.recording_start = now,
              !.vad = vadOk]

\* SilenceDetector::reset (silence.rs:108-122)
reset(d, vadOk, now) ==
    [d EXCEPT !.has_detected_speech = FALSE,
              !.silence_start = {},
              !.recording_start = now,
              !.vad = vadOk]

\* SilenceDetector::check_vad (silence.rs:140-165): without a VAD no speech;
\* else speech if a whole chunk's probability reaches the threshold.
check_vad(d, frame) ==
    /\ d.vad
    /\ \E i \in 1..Len(frame.chunks) :
            frame.chunks[i] >= d.config.vad_speech_threshold

\* The timeout reached only when the time is past it.
no_speech_timed_out_late(d, total_elapsed) ==
    total_elapsed > d.config.no_speech_timeout_ms

\* silence.rs:196
no_speech_timed_out(d, total_elapsed) ==
    total_elapsed >= d.config.no_speech_timeout_ms

\* The silence measured against the no-speech timeout.
silence_timed_out_as_no_speech(d, silence_duration) ==
    silence_duration >= d.config.no_speech_timeout_ms

\* silence.rs:210
silence_timed_out(d, silence_duration) ==
    silence_duration >= d.config.silence_duration_ms

\* Speech that leaves the silence span running.
on_speech_keeps_span(d) == [d EXCEPT !.has_detected_speech = TRUE]

\* silence.rs:226-227, the detector after a frame with speech.
on_speech(d) == [d EXCEPT !.has_detected_speech = TRUE, !.silence_start = {}]

\* The no-speech timeout checked whether or not speech was heard.
no_speech_yet_always(d) == TRUE

\* silence.rs:188: `if !self.has_detected_speech`, no speech yet.
no_speech_yet(d) == ~d.has_detected_speech

\* SilenceDetector::process_samples (silence.rs:171-231). now: the
\* Instant::now() of line 172; later: the time the elapsed() of lines 186
\* and 190 reads, after check_vad has run.
detector_process_samples(d, frame, now, later) ==
    LET has_speech == check_vad(d, frame)
        is_silent == ~has_speech
        started == IF d.silence_start = {} THEN {now} ELSE d.silence_start
        silence_duration == later - (CHOOSE t \in started : TRUE)
        total_elapsed == later - d.recording_start
        silent == [d EXCEPT !.silence_start = started]
    IN IF is_silent
       THEN IF no_speech_yet(d)
            THEN IF no_speech_timed_out(d, total_elapsed)
                 THEN [d |-> silent, result |-> StopDetection("NoSpeechTimeout"),
                       speech |-> FALSE]
                 ELSE [d |-> silent, result |-> Continue, speech |-> FALSE]
            ELSE IF silence_timed_out(d, silence_duration)
                 THEN [d |-> silent, result |-> StopDetection("SilenceAfterSpeech"),
                       speech |-> FALSE]
                 ELSE [d |-> silent, result |-> Continue, speech |-> FALSE]
       ELSE [d |-> on_speech(d), result |-> Continue, speech |-> TRUE]

\* SilenceDetector::with_config (silence.rs:81-105)
WithConfig ==
    /\ detector = {}
    /\ \E config \in SilenceConfigs, vadOk \in BOOLEAN :
        detector' = {with_config(config, vadOk, clock)}
    /\ frames' = <<>>
    /\ Called("with_config", "-")
    /\ ret' = Ok
    /\ trail' = <<>>
    /\ calls' = <<>>
    /\ UNCHANGED <<escVars, raceVars, diagVars, mgrVars, heap, coordVars, threadVars, cpalVars, implVars, clock>>

\* SilenceDetector::reset (silence.rs:108-122); arg is the detector it is
\* called on, as it was before the call.
DetectorReset ==
    /\ \E d \in detector, vadOk \in BOOLEAN :
        /\ detector' = {reset(d, vadOk, clock)}
        /\ Called("reset", d)
    /\ frames' = <<>>
    /\ ret' = Ok
    /\ trail' = <<>>
    /\ calls' = <<>>
    /\ UNCHANGED <<escVars, raceVars, diagVars, mgrVars, heap, coordVars, threadVars, cpalVars, implVars, clock>>

\* A millisecond passes.
Tick ==
    /\ clock < MaxClock
    /\ clock' = clock + 1
    /\ UNCHANGED <<escVars, raceVars, diagVars, mgrVars, heap, coordVars, threadVars, cpalVars, implVars,
                   detector, frames, obsVars>>

\* SilenceDetector::process_samples (silence.rs:171-231) on a frame; the
\* call takes no time or one millisecond.
DetectorProcessSamples ==
    /\ Len(frames) < MaxFrames
    /\ \E d \in detector, frame \in AudioFrames, later \in {clock, clock + 1} :
        /\ later <= MaxClock
        /\ LET r == detector_process_samples(d, frame, clock, later) IN
            /\ detector' = {r.d}
            /\ ret' = r.result
            /\ frames' = Append(frames, [at |-> clock, read |-> later,
                                         speech |-> r.speech, result |-> r.result])
        /\ clock' = later
    /\ Called("detector.process_samples", "-")
    /\ trail' = <<>>
    /\ calls' = <<>>
    /\ UNCHANGED <<escVars, raceVars, diagVars, mgrVars, heap, coordVars, threadVars, cpalVars, implVars>>

\* --------------------------------------------------- RecordingDiagnostics

\* record_input, lines 109-110: the slice is counted before it is examined.
RecordInput ==
    /\ rec.pc = "idle"
    /\ \E samples \in Slices :
        /\ diag.input_sample_count + Len(samples) <= MaxDiagSamples
        /\ diag' = [diag EXCEPT !.input_sample_count = @ + Len(samples)]
        /\ rec' = [pc |-> "counted", samples |-> samples]
    /\ UNCHANGED <<escVars, raceVars, mgrVars, heap, coordVars, threadVars, cpalVars, implVars,
                   silenceVars, chk, returned, obsVars>>

\* record_input, lines 113-114: both mutexes are taken. No thread holds one
\* of them across a step, so they are free.
RecordInputLock ==
    /\ rec.pc = "counted"
    /\ rec' = [rec EXCEPT !.pc = "locked"]
    /\ UNCHANGED <<escVars, raceVars, mgrVars, heap, coordVars, threadVars, cpalVars, implVars,
                   silenceVars, diag, chk, returned, obsVars>>

\* record_input, lines 116-127: one turn of the loop.
RecordInputSample ==
    /\ rec.pc = "locked"
    /\ rec.samples # <<>>
    /\ diag' = record_sample(diag, Head(rec.samples))
    /\ rec' = [rec EXCEPT !.samples = Tail(@)]
    /\ UNCHANGED <<escVars, raceVars, mgrVars, heap, coordVars, threadVars, cpalVars, implVars,
                   silenceVars, chk, returned, obsVars>>

\* record_input, lines 128-129: the guards are dropped and the call returns.
RecordInputReturn ==
    /\ rec.pc = "locked"
    /\ rec.samples = <<>>
    /\ rec' = [pc |-> "idle", samples |-> <<>>]
    /\ UNCHANGED <<escVars, raceVars, mgrVars, heap, coordVars, threadVars, cpalVars, implVars,
                   silenceVars, diag, chk, returned, obsVars>>

\* check_warnings enters input_metrics, which loads the sample count
\* (diagnostics.rs:159-162, 133).
CheckWarnings(t) ==
    /\ chk[t].pc = "idle"
    /\ chk' = [chk EXCEPT ![t] = [CheckIdle EXCEPT
                    !.pc = "peak",
                    !.sample_count = diag.input_sample_count]]
    /\ UNCHANGED <<escVars, raceVars, mgrVars, heap, coordVars, threadVars, cpalVars, implVars,
                   silenceVars, diag, rec, returned, obsVars>>

\* input_metrics, line 134: the peak is read under its mutex (check_warnings
\* makes no use of it).
CheckPeak(t) ==
    /\ chk[t].pc = "peak"
    /\ rec.pc # "locked"
    /\ chk' = [chk EXCEPT ![t].pc = "sum"]
    /\ UNCHANGED <<escVars, raceVars, mgrVars, heap, coordVars, threadVars, cpalVars, implVars,
                   silenceVars, diag, rec, returned, obsVars>>

\* input_metrics, line 135: the sum of squares is read under its mutex.
CheckSumSq(t) ==
    /\ chk[t].pc = "sum"
    /\ rec.pc # "locked"
    /\ chk' = [chk EXCEPT ![t].pc = "quiet", ![t].sum_sq = diag.input_sum_sq]
    /\ UNCHANGED <<escVars, raceVars, mgrVars, heap, coordVars, threadVars, cpalVars, implVars,
                   silenceVars, diag, rec, returned, obsVars>>

\* check_warnings, lines 165-178: the quiet check and its swap.
CheckQuiet(t) ==
    /\ chk[t].pc = "quiet"
    /\ IF /\ enough_samples(chk[t].sample_count)
          /\ rms_is_quiet(chk[t].sum_sq, chk[t].sample_count)
       THEN LET w == swap_relaxed(diag.quiet_warning_emitted) IN
            /\ diag' = [diag EXCEPT !.quiet_warning_emitted = w.new]
            /\ chk' = [chk EXCEPT
                    ![t].pc = "clip",
                    ![t].warnings = IF w.old THEN @ ELSE Append(@, "TooQuiet")]
       ELSE /\ chk' = [chk EXCEPT ![t].pc = "clip"]
            /\ diag' = diag
    /\ UNCHANGED <<escVars, raceVars, mgrVars, heap, coordVars, threadVars, cpalVars, implVars,
                   silenceVars, rec, returned, obsVars>>

\* check_warnings, line 181: the clipping count is loaded.
CheckClipping(t) ==
    /\ chk[t].pc = "clip"
    /\ chk' = [chk EXCEPT ![t].pc = "swap", ![t].clip_count = diag.clipping_count]
    /\ UNCHANGED <<escVars, raceVars, mgrVars, heap, coordVars, threadVars, cpalVars, implVars,
                   silenceVars, diag, rec, returned, obsVars>>

\* check_warnings, lines 182-201: the swap of the clipping flag, and the
\* return of the warnings collected (their types; severity and message are
\* left out).
CheckReturn(t) ==
    /\ chk[t].pc = "swap"
    /\ LET w == IF chk[t].clip_count > 0
                THEN swap_relaxed(diag.clipping_warning_emitted)
                ELSE [old |-> TRUE, new |-> diag.clipping_warning_emitted]
           warnings == IF w.old THEN chk[t].warnings
                       ELSE Append(chk[t].warnings, "Clipping")
       IN /\ diag' = [diag EXCEPT !.clipping_warning_emitted = w.new]
          /\ ret' = [tag |-> "Warnings", warnings |-> warnings]
          /\ returned' = [x \in QualityWarningType |->
                            returned[x] + Cardinality({i \in 1..Len(warnings) :
                                                        warnings[i] = x})]
    /\ chk' = [chk EXCEPT ![t] = CheckIdle]
    /\ Called("check_warnings", "-")
    /\ trail' = <<>>
    /\ calls' = <<>>
    /\ UNCHANGED <<escVars, raceVars, mgrVars, heap, coordVars, threadVars, cpalVars, implVars,
                   silenceVars, rec>>

\* --------------------------- the commands called by several threads

\* `state.lock()` at the head of start_recording_impl (logic.rs:51) and of
\* stop_recording_impl (logic.rs:106): the thread waits for the mutex and
\* holds the guard `manager` from here on.
ImplLock(t) ==
    /\ caller[t].pc = "idle"
    /\ lock_free(state_lock)
    /\ state_lock' = state_lock \cup {t}
    /\ \E fn \in {"start_recording_impl", "stop_recording_impl"} :
        caller' = [caller EXCEPT ![t] = [CallerIdle EXCEPT !.pc = "locked", !.fn = fn]]
    /\ UNCHANGED <<escVars, diagVars, buffer_lock, impl_pc, impl_samples, silenceVars, mgrVars,
                   heap, coordVars, threadVars, cpalVars, tally, obsVars>>

\* start_recording_impl without an audio thread, lines 56-85, under the
\* guard; the return drops the guard.
ImplStart(t) ==
    /\ caller[t].pc = "locked"
    /\ caller[t].fn = "start_recording_impl"
    /\ state = "Idle" => CanAllocate
    /\ \E live \in {LiveHandles} :
        LET r == start_recording_impl(Manager, heap, live, queue,
                                      thread_running, FALSE) IN
        /\ SetManager(r.m)
        /\ ret' = r.ret
        /\ trail' = r.trail
        /\ tally' = IF r.ret # Ok THEN tally
                    ELSE IF state = "Idle"
                    THEN [NoTally EXCEPT !.starts = 1]
                    ELSE [tally EXCEPT !.starts = @ + 1]
    /\ state_lock' = state_lock \ {t}
    /\ caller' = [caller EXCEPT ![t] = CallerIdle]
    /\ Called("start_recording_impl", t)
    /\ calls' = <<>>
    /\ UNCHANGED <<escVars, diagVars, buffer_lock, impl_pc, impl_samples, silenceVars, coordVars,
                   threadVars, cpalVars>>
    /\ Release(heap)

\* stop_recording_impl without an audio thread, lines 111-138: the state
\* check, the transition to Processing, get_audio_buffer and the clone of
\* the samples under the buffer's mutex. An early return drops the guard.
ImplStopBegin(t) ==
    /\ caller[t].pc = "locked"
    /\ caller[t].fn = "stop_recording_impl"
    /\ buffer_lock = {}
    /\ \E live \in {LiveHandles} :
        LET u == transition_to(Manager, heap, live, "Processing")
            buffer == get_audio_buffer(u.m)
            samples == heap[CHOOSE b \in buffer : TRUE]
        IN IF state # "Recording"
           THEN /\ ret' = Err("NotRecording")
                /\ trail' = <<>>
                /\ state_lock' = state_lock \ {t}
                /\ caller' = [caller EXCEPT ![t] = CallerIdle]
                /\ UNCHANGED <<escVars, mgrVars, tally>>
           ELSE IF u.res # Ok
           THEN /\ ret' = Err("ProcessFailed")
                /\ trail' = <<>>
                /\ state_lock' = state_lock \ {t}
                /\ caller' = [caller EXCEPT ![t] = CallerIdle]
                /\ UNCHANGED <<escVars, mgrVars, tally>>
           ELSE IF buffer = {}
           THEN /\ ret' = Err("NoAudio")
                /\ trail' = Change(Manager, u.m, "transition_to")
                /\ SetManager(u.m)
                /\ tally' = [tally EXCEPT !.processing = @ + 1]
                /\ state_lock' = state_lock \ {t}
                /\ caller' = [caller EXCEPT ![t] = CallerIdle]
           ELSE /\ ret' = Ok
                /\ trail' = Change(Manager, u.m, "transition_to")
                /\ SetManager(u.m)
                /\ tally' = [tally EXCEPT !.processing = @ + 1]
                /\ caller' = [caller EXCEPT
                        ![t].pc = IF samples # <<>> THEN "encoding" ELSE "finishing",
                        ![t].samples = samples]
                /\ UNCHANGED state_lock
    /\ Called("stop_recording_impl.begin", t)
    /\ calls' = <<>>
    /\ UNCHANGED <<escVars, diagVars, buffer_lock, impl_pc, impl_samples, silenceVars, heap,
                   coordVars, threadVars, cpalVars>>

\* Lines 141-148: encode_wav returns; its error returns from the command,
\* which drops the guard.
ImplStopEncoded(t) ==
    /\ caller[t].pc = "encoding"
    /\ \E encodeOk \in BOOLEAN :
        /\ calls' = <<Call("encode_wav", caller[t].samples, encodeOk)>>
        /\ ret' = IF encodeOk THEN Ok ELSE Err("SaveFailed")
        /\ caller' = [caller EXCEPT ![t] = IF encodeOk
                                           THEN [@ EXCEPT !.pc = "finishing"]
                                           ELSE CallerIdle]
        /\ state_lock' = IF encodeOk THEN state_lock ELSE state_lock \ {t}
        /\ tally' = IF encodeOk THEN [tally EXCEPT !.encoded = @ + 1] ELSE tally
    /\ Called("stop_recording_impl.encoded", t)
    /\ trail' = <<>>
    /\ UNCHANGED <<escVars, diagVars, buffer_lock, impl_pc, impl_samples, silenceVars, mgrVars,
                   heap, coordVars, threadVars, cpalVars>>

\* Lines 150-167: the transition to Idle and the return, which drops the
\* guard.
ImplStopFinish(t) ==
    /\ caller[t].pc = "finishing"
    /\ \E live \in {LiveHandles} :
        LET u == transition_to(Manager, heap, live, "Idle") IN
        IF u.res # Ok
        THEN /\ ret' = Err("CompleteFailed")
             /\ trail' = <<>>
             /\ UNCHANGED <<escVars, mgrVars, tally>>
        ELSE /\ SetManager(u.m)
             /\ trail' = Change(Manager, u.m, "transition_to")
             /\ ret' = [tag |-> "Ok", sample_count |-> Len(caller[t].samples),
                        encoded |-> caller[t].samples # <<>>]
             /\ tally' = [tally EXCEPT !.stops = @ + 1]
    /\ state_lock' = state_lock \ {t}
    /\ caller' = [caller EXCEPT ![t] = CallerIdle]
    /\ Called("stop_recording_impl", t)
    /\ calls' = <<>>
    /\ UNCHANGED <<escVars, diagVars, buffer_lock, impl_pc, impl_samples, silenceVars, coordVars,
                   threadVars, cpalVars>>
    /\ Release(heap)

\* ------------------------------------------------ the Escape key listener

\* The integration is given its Escape configuration before it is used
\* (the fields read at escape_handler.rs:39-55): a backend, and a callback
\* or none.
ConfigureEscape ==
    /\ op = "new"
    /\ escape = {}
    /\ \E callback \in BOOLEAN : escape' = {[callback |-> callback]}
    /\ UNCHANGED <<raceVars, diagVars, implVars, silenceVars, mgrVars, heap, coordVars,
                   threadVars, cpalVars, escape_registered, double_tap_detector,
                   shortcuts, deferred, obsVars>>

\* register_escape_listener outside tests (escape_handler.rs:31-64,
\* 108-163): the registration itself is left to a spawned thread.
RegisterEscapeListener ==
    /\ IF escape_registered
       THEN UNCHANGED <<double_tap_detector, deferred>>
       ELSE IF escape = {} \/ \E c \in escape : ~c.callback
       THEN UNCHANGED <<double_tap_detector, deferred>>
       ELSE /\ Unfinished(deferred) < MaxDeferred
            /\ double_tap_detector' = {"detector"}
            /\ deferred' = [deferred EXCEPT !.register = @ + 1]
    /\ Called("register_escape_listener", "-")
    /\ ret' = Ok
    /\ trail' = <<>>
    /\ calls' = <<>>
    /\ UNCHANGED <<raceVars, diagVars, implVars, silenceVars, mgrVars, heap, coordVars,
                   threadVars, cpalVars, escape, escape_registered, shortcuts>>

\* The spawned thread of register_escape_listener, after its sleep, calls
\* backend.register (escape_handler.rs:120-137); an error ends the thread
\* (145-160). calls: the call and its result, as the thread logs it.
DeferredRegister ==
    /\ deferred.register > 0
    /\ \E ok \in BOOLEAN :
        LET r == backend_register(shortcuts, ESCAPE_SHORTCUT, ok) IN
        /\ shortcuts' = r.registered
        /\ deferred' = [deferred EXCEPT !.register = @ - 1,
                                        !.store = IF r.ok THEN @ + 1 ELSE @]
        /\ calls' = <<Call("backend.register", ESCAPE_SHORTCUT, r.ok)>>
    /\ UNCHANGED <<raceVars, diagVars, implVars, silenceVars, mgrVars, heap, coordVars,
                   threadVars, cpalVars, escape, escape_registered,
                   double_tap_detector, op, arg, prev_state, ret, trail>>

\* The spawned thread stores escape_registered after the backend's Ok
\* (escape_handler.rs:138-144).
DeferredRegisterStore ==
    /\ deferred.store > 0
    /\ escape_registered' = TRUE
    /\ deferred' = [deferred EXCEPT !.store = @ - 1]
    /\ UNCHANGED <<raceVars, diagVars, implVars, silenceVars, mgrVars, heap, coordVars,
                   threadVars, cpalVars, escape, double_tap_detector, shortcuts,
                   obsVars>>

\* unregister_escape_listener outside tests (escape_handler.rs:175-233).
UnregisterEscapeListener ==
    /\ double_tap_detector' = {}
    /\ IF ~escape_registered \/ escape = {}
       THEN UNCHANGED <<escape_registered, deferred>>
       ELSE /\ Unfinished(deferred) < MaxDeferred
            /\ escape_registered' = FALSE
            /\ deferred' = [deferred EXCEPT !.unregister = @ + 1]
    /\ Called("unregister_escape_listener", "-")
    /\ ret' = Ok
    /\ trail' = <<>>
    /\ calls' = <<>>
    /\ UNCHANGED <<raceVars, diagVars, implVars, silenceVars, mgrVars, heap, coordVars,
                   threadVars, cpalVars, escape, shortcuts>>

\* The spawned thread of unregister_escape_listener, after its sleep, calls
\* backend.unregister and logs the result (escape_handler.rs:218-231).
DeferredUnregister ==
    /\ deferred.unregister > 0
    /\ LET r == backend_unregister(shortcuts, ESCAPE_SHORTCUT) IN
        /\ shortcuts' = r.registered
        /\ calls' = <<Call("backend.unregister", ESCAPE_SHORTCUT, r.ok)>>
    /\ deferred' = [deferred EXCEPT !.unregister = @ - 1]
    /\ UNCHANGED <<raceVars, diagVars, implVars, silenceVars, mgrVars, heap, coordVars,
                   threadVars, cpalVars, escape, escape_registered,
                   double_tap_detector, op, arg, prev_state, ret, trail>>

vars == <<state, audio_buffer, last_recording, heap,
          backend_state, backend_buffer, sample_rate,
          queue, thread_running, thread_log,
          cpal_state, stream, callback_state, stop_channel,
          cb_pc, cb_reason, cb_input, err_pc, stop_pc, stop_trace,
          state_lock, buffer_lock, impl_pc, impl_samples,
          detector, clock, frames,
          diag, rec, chk, returned,
          caller, tally,
          escape, escape_registered, double_tap_detector, shortcuts, deferred,
          op, arg, prev_state, ret, trail, calls>>

ManagerNext ==
    \/ \E target \in RecordingStates : TransitionTo(target)
    \/ ResetToIdle
    \/ ClearLastRecording
    \/ GetAudioBuffer
    \/ GetLastRecordingBuffer
    \/ \E v \in Samples : WriteAudioBuffer(v)

ManagerSpec == Init /\ [][ManagerNext]_vars

CoordNext ==
    \/ StartRecording
    \/ StopRecording
    \/ \E v \in Samples : CaptureSamples(v)

\* The coordinator alone: its manager is private (coordinator.rs:50-55).
CoordSpec == Init /\ [][CoordNext]_vars

\* The coordinator built with `new` and, possibly, `with_sample_rate`.
CoordRateNext ==
    \/ CoordNext
    \/ WithSampleRate

CoordRateSpec == Init /\ [][CoordRateNext]_vars

\* The coordinator whose caller keeps calling start_recording and
\* stop_recording for as long as they do something.
CoordFairSpec ==
    /\ Init
    /\ [][CoordNext]_vars
    /\ WF_vars(StartRecording)
    /\ WF_vars(StopRecording)

\* The commands, the audio thread they talk to and the device's callbacks.
ThreadNext ==
    \/ StartRecordingImpl
    \/ StopRecordingImpl
    \/ ThreadShutdown
    \/ AudioThreadRecv
    \/ DataCallback
    \/ StreamError

ThreadSpec == Init /\ [][ThreadNext]_vars

\* The commands of several threads on the one Mutex<RecordingManager>, with
\* stop_recording_impl taken lock by lock, and the capture side writing.
LockNext ==
    \/ StartRecordingImplLocked
    \/ \E v \in Samples : WriteAudioBufferLocked(v)
    \/ GetRecordingStateImpl
    \/ StopImplLock
    \/ StopImplBegin
    \/ StopImplClone
    \/ StopImplEncoded
    \/ StopImplFinish

LockSpec == Init /\ [][LockNext]_vars

\* The AudioThreadHandle used directly by any number of threads, and the
\* audio thread.
HandleNext ==
    \/ HandleStart
    \/ HandleStop
    \/ ThreadShutdown
    \/ AudioThreadRecv

HandleSpec == Init /\ [][HandleNext]_vars

\* The same, with the audio thread scheduled: it is a thread of its own
\* that blocks in receiver.recv() (thread.rs:88) and runs whenever a command
\* is in the channel.
HandleFairSpec == HandleSpec /\ WF_vars(AudioThreadRecv)

\* The capture backend, its owner calling start and stop, and the device
\* running the data and error callbacks of the stream on its own threads.
CpalNext ==
    \/ CpalStart
    \/ CpalStopStep
    \/ CallbackProcess
    \/ CallbackSwap
    \/ CallbackSend
    \/ ErrorBegin
    \/ ErrorSwap
    \/ ErrorSend

CpalSpec == Init /\ [][CpalNext]_vars

\* The capture backend when its locks may get poisoned.
CpalPoisonNext ==
    \/ CpalNext
    \/ PoisonLock

CpalPoisonSpec == Init /\ [][CpalPoisonNext]_vars

\* A SilenceDetector, the frames it is given and the time that passes.
SilenceNext ==
    \/ WithConfig
    \/ DetectorReset
    \/ Tick
    \/ DetectorProcessSamples

SilenceSpec == Init /\ [][SilenceNext]_vars

\* A RecordingDiagnostics shared by a thread that records input and the
\* threads that check for warnings.
DiagNext ==
    \/ RecordInput
    \/ RecordInputLock
    \/ RecordInputSample
    \/ RecordInputReturn
    \/ \E t \in CheckThreads : CheckWarnings(t)
    \/ \E t \in CheckThreads : CheckPeak(t)
    \/ \E t \in CheckThreads : CheckSumSq(t)
    \/ \E t \in CheckThreads : CheckQuiet(t)
    \/ \E t \in CheckThreads : CheckClipping(t)
    \/ \E t \in CheckThreads : CheckReturn(t)

DiagSpec == Init /\ [][DiagNext]_vars

\* start_recording_impl and stop_recording_impl called by several threads
\* on the one Mutex<RecordingManager>, and the capture side writing.
RaceNext ==
    \/ \E t \in Callers : ImplLock(t)
    \/ \E t \in Callers : ImplStart(t)
    \/ \E t \in Callers : ImplStopBegin(t)
    \/ \E t \in Callers : ImplStopEncoded(t)
    \/ \E t \in Callers : ImplStopFinish(t)
    \/ \E v \in Samples : WriteAudioBufferLocked(v)

RaceSpec == Init /\ [][RaceNext]_vars

\* The Escape listener registered and unregistered by the integration, and
\* the threads these calls spawn.
EscapeNext ==
    \/ ConfigureEscape
    \/ RegisterEscapeListener
    \/ DeferredRegister
    \/ DeferredRegisterStore
    \/ UnregisterEscapeListener
    \/ DeferredUnregister

EscapeSpec == Init /\ [][EscapeNext]_vars

\* Every operation of the manager and of the coordinator, in any order.
Next ==
    \/ ManagerNext
    \/ CoordNext

Spec == Init /\ [][Next]_vars
\* ================================================================ claims

ValidPairs == {<<"Idle", "Recording">>, <<"Recording", "Processing">>,
               <<"Processing", "Idle">>}

\* Whether the last operation called collaborator fn, and with which outcome.
CalledFn(cs, fn) == \E i \in 1..Len(cs) : cs[i].fn = fn
FailedFn(cs, fn) == \E i \in 1..Len(cs) : cs[i].fn = fn /\ ~cs[i].ok

\* C1: transition_to(target) succeeds exactly for (Idle,Recording),
\* (Recording,Processing) and (Processing,Idle), and then the state is the
\* target; for every other pair, self-transitions included, it returns
\* InvalidTransition{from: current, to: target} and leaves the state, the
\* live buffer (handle and contents) and the last recording unchanged.
C1_TransitionValidated ==
    [][op' = "transition_to" =>
         IF <<state, arg'>> \in ValidPairs
         THEN ret' = Ok /\ state' = arg'
         ELSE /\ ret' = InvalidTransition(state, arg')
              /\ UNCHANGED <<state, audio_buffer, last_recording, heap>>]_vars

\* C1's case: Processing -> Recording was rejected while a buffer with
\* samples and a retained recording were held.
C1_Witness ==
    /\ op = "transition_to"
    /\ ret = InvalidTransition("Processing", "Recording")
    /\ \E b \in audio_buffer : heap[b] # <<>>
    /\ last_recording # {}

\* C2 as claimed: the state never changes from Idle to Processing nor from
\* Recording to Idle, in any change any operation makes.
C2_NeverSkips ==
    \A i \in 1..Len(trail) :
        <<trail[i].from, trail[i].to>> \notin
            {<<"Idle", "Processing">>, <<"Recording", "Idle">>}

\* C2 as amended: the state never changes from Idle to Processing, and the
\* only change from Recording to Idle is the one reset_to_idle makes (called
\* directly, or by start_recording to roll back a capture failure);
\* transition_to never makes it.
C2_SkipsOnlyByReset ==
    \A i \in 1..Len(trail) :
        /\ <<trail[i].from, trail[i].to>> # <<"Idle", "Processing">>
        /\ <<trail[i].from, trail[i].to>> = <<"Recording", "Idle">>
              => trail[i].by = "reset_to_idle"

\* C2's case: start_recording rolled back, Recording -> Idle by reset_to_idle.
C2_Witness ==
    /\ op = "start_recording"
    /\ \E i \in 1..Len(trail) :
          trail[i] = [from |-> "Recording", to |-> "Idle", by |-> "reset_to_idle"]

\* C3: when the backend's start fails in start_recording, the call returns
\* a capture error, and after a capture error the state is Idle with no
\* live buffer.
C3_CaptureFailureRollsBack ==
    (op = "start_recording" /\ (FailedFn(calls, "backend.start")
                                 \/ ret.tag = "CaptureError"))
        => /\ ret.tag = "CaptureError"
           /\ FailedFn(calls, "backend.start")
           /\ state = "Idle"
           /\ audio_buffer = {}

\* C3's case: start_recording was called in Idle and the backend failed.
C3_Witness ==
    /\ op = "start_recording"
    /\ prev_state = "Idle"
    /\ FailedFn(calls, "backend.start")

\* C5: start_recording called while the state is not Idle returns
\* AlreadyRecording, calls nothing (no backend start), and leaves the
\* state, the live buffer, its contents and the backend unchanged.
C5_StartWhileBusyRejected ==
    [][(op' = "start_recording" /\ state # "Idle")
         => /\ ret'.tag = "AlreadyRecording"
            /\ calls' = <<>>
            /\ UNCHANGED <<state, audio_buffer, last_recording, heap,
                           backend_state, backend_buffer>>]_vars

\* C5's case: a second start_recording while Recording, the backend
\* capturing since the first.
C5_Witness ==
    /\ op = "start_recording"
    /\ ret.tag = "AlreadyRecording"
    /\ prev_state = "Recording"
    /\ state = "Recording"
    /\ backend_state = "Capturing"

\* C6: stop_recording called while the state is not Recording returns
\* NotRecording, calls neither the backend's stop nor the encoder, and
\* leaves the state, the live buffer and the last recording unchanged.
C6_StopWhileNotRecordingRejected ==
    [][(op' = "stop_recording" /\ state # "Recording")
         => /\ ret'.tag = "NotRecording"
            /\ calls' = <<>>
            /\ UNCHANGED <<state, audio_buffer, last_recording, heap,
                           backend_state, backend_buffer>>]_vars

\* C6's case: stop_recording rejected in Processing while the buffer holds
\* samples.
C6_Witness ==
    /\ op = "stop_recording"
    /\ ret.tag = "NotRecording"
    /\ prev_state = "Processing"
    /\ \E b \in audio_buffer : heap[b] # <<>>

\* C7: when encoding fails in stop_recording, the call returns an encoding
\* error, the state is Processing, the live buffer is the one held before
\* with the very samples it held (those handed to the encoder), and the
\* last recording is unchanged.
C7_EncodingFailureKeepsBuffer ==
    [][(op' = "stop_recording" /\ FailedFn(calls', "encode_wav"))
         => /\ ret'.tag = "EncodingError"
            /\ state = "Recording" /\ state' = "Processing"
            /\ audio_buffer # {} /\ audio_buffer' = audio_buffer
            /\ \A b \in audio_buffer :
                  /\ heap'[b] = heap[b]
                  /\ \A i \in 1..Len(calls') :
                        calls'[i].fn = "encode_wav" => calls'[i].samples = heap[b]
            /\ last_recording' = last_recording]_vars

\* C7's case: encoding failed on a buffer with samples while an earlier
\* recording was retained.
C7_Witness ==
    /\ op = "stop_recording"
    /\ FailedFn(calls, "encode_wav")
    /\ \E b \in audio_buffer : Len(heap[b]) = MaxSamples
    /\ last_recording # {}
\* C4: when recording is started through the audio thread and the backend's
\* start fails there, the manager is not left in Recording: once the audio
\* thread has handled Start(buffer) and the backend refused, the manager is
\* not recording into that buffer.
C4_FailedStartNotRecording ==
    (op = "audio_thread" /\ thread_log.cmd = "Start" /\ ~thread_log.ok)
        => ~(state = "Recording" /\ audio_buffer = thread_log.buffer)

\* C8: an encoding failure in stop_recording is recoverable: when the
\* caller goes on calling start_recording and stop_recording, the state
\* is Idle again at some point.
C8_EncodingFailureRecovers ==
    (op = "stop_recording" /\ ret.tag = "EncodingError") ~> (state = "Idle")

\* C9: in CpalBackend::stop the stream is dropped before flush_residuals
\* and log_sample_diagnostics run: both meet no stream and no data callback
\* inside process_samples, no process_samples begins once the flush has
\* begun, and a CallbackState is cleared only after it has been flushed.
C9_StreamDroppedBeforeFlush ==
    \A i \in 1..Len(stop_trace) :
        LET e == stop_trace[i]
            Before(stmt) == \E j \in 1..(i - 1) : stop_trace[j].stmt = stmt
        IN /\ e.stmt \in {"flush_residuals", "log_sample_diagnostics"}
                => Before("drop_stream") /\ ~e.stream /\ ~e.busy
           /\ e.stmt = "process_samples" => ~Before("flush_residuals")
           /\ (e.stmt = "clear" /\ e.state) => Before("flush_residuals")

\* C9's case: a stop that dropped a running stream, flushed residual
\* samples of its session and has cleared the CallbackState.
C9_Witness ==
    /\ Len(stop_trace) = Len(StopOrder)
    /\ stop_pc = 0
    /\ callback_state = {}
    /\ \E i \in 1..Len(stop_trace) :
        stop_trace[i].stmt = "drop_stream" /\ stop_trace[i].stream
    /\ \E i \in 1..Len(stop_trace) :
        stop_trace[i].stmt = "flush_residuals" /\ stop_trace[i].residual

\* C10: at most one StopReason is sent on a session's stop-signal channel,
\* however the data callbacks and the stream-error callbacks that detect a
\* stop condition interleave.
C10_AtMostOneStopReason == Len(stop_channel) <= 1

\* C10's case: one reason was sent, and a callback that detected a stop
\* condition afterwards found the flag set and sent nothing.
C10_Witness ==
    /\ Len(stop_channel) = 1
    /\ op \in {"callback_swap", "error_swap"}
    /\ ret.tag = "AlreadySignaled"

\* How often reason x was sent to the channel.
Count(chan, x) == Cardinality({i \in 1..Len(chan) : chan[i] = x})

\* C11: the destination buffer never holds more than its maximum, whatever
\* process_samples and flush_residuals do, and a process_samples call that
\* finds it full adds nothing to it.
C11_BufferBounded ==
    [][/\ \A b \in BufferIds : Len(heap'[b]) <= MAX_BUFFER_SAMPLES
       /\ op' = "process_samples" =>
            \A cs \in callback_state :
                Len(heap[cs.buffer]) >= MAX_BUFFER_SAMPLES
                    => heap'[cs.buffer] = heap[cs.buffer]]_vars

\* C11's case: without a resampler, a process_samples call met the full
\* buffer and dropped its samples.
C11_Witness ==
    /\ op = "process_samples"
    /\ cb_reason = {"BufferFull"}
    /\ \E cs \in callback_state :
        /\ ~cs.resampler
        /\ Len(heap[cs.buffer]) = MAX_BUFFER_SAMPLES
        /\ cs.output_sample_count < cs.input_sample_count

\* C12 as stated: once a data callback that found the buffer full has
\* returned, in a session with a stop-signal channel and with no error
\* callback under way, BufferFull has been sent exactly once.
C12_BufferFullExactlyOnce ==
    (/\ cb_pc = "idle"
     /\ err_pc = "idle"
     /\ op \in {"callback_swap", "callback_send"}
     /\ ret.reason = "BufferFull"
     /\ \E cs \in callback_state : cs.stop_signal)
        => Count(stop_channel, "BufferFull") = 1

\* C12, amended: BufferFull is sent at most once per session; once a data
\* callback that found the buffer full has returned, and the session has a
\* stop-signal channel, exactly one stop reason of whatever kind has been
\* sent or is being sent by the error callback, and it is BufferFull when
\* this callback was the one to send.
C12_BufferFullAtMostOnce ==
    /\ Count(stop_channel, "BufferFull") <= 1
    /\ (/\ cb_pc = "idle"
        /\ op \in {"callback_swap", "callback_send"}
        /\ ret.reason = "BufferFull"
        /\ \E cs \in callback_state : cs.stop_signal)
            => /\ Len(stop_channel) + (IF err_pc = "send" THEN 1 ELSE 0) = 1
               /\ ret.tag = "Sent" => stop_channel = <<"BufferFull">>

\* C12's case: BufferFull was sent, and a later data callback that found
\* the buffer full again has sent nothing.
C12_Witness ==
    /\ op = "callback_swap"
    /\ ret.tag = "AlreadySignaled"
    /\ ret.reason = "BufferFull"
    /\ stop_channel = <<"BufferFull">>

C14_PoisonedLockSignals ==
    (/\ op = "process_samples"
     /\ cb_pc = "idle"
     /\ \E cs \in callback_state :
            cs.resampler /\ cs.stop_signal /\ "resample_buffer" \in cs.poisoned)
        => \/ Count(stop_channel, "LockError") = 1
           \/ \E cs \in callback_state : cs.signaled

\* C15: a process_samples call that does not overflow gives the resampler
\* exactly the floor((p + n) / chunk_size) whole chunks of the accumulated
\* samples followed by the input, in arrival order, and leaves the remaining
\* (p + n) mod chunk_size samples in the accumulation buffer; nothing but
\* process_samples, flush_residuals and the start of a new session changes
\* the accumulation buffer.
C15_WholeChunksOnly ==
    [][\A cs \in callback_state :
        /\ (/\ op' = "process_samples"
            /\ cs.resampler
            /\ Len(cs.resample_buffer) + Len(cb_input') <= MAX_RESAMPLE_BUFFER_SAMPLES)
                => LET all == cs.resample_buffer \o cb_input'
                       q == Len(all) \div cs.chunk_size
                   IN /\ Len(calls') = q
                      /\ \A n \in 1..q :
                            calls'[n].samples =
                                SubSeq(all, (n - 1) * cs.chunk_size + 1, n * cs.chunk_size)
                      /\ \A cs2 \in callback_state' :
                            /\ cs2.resample_buffer =
                                    SubSeq(all, q * cs.chunk_size + 1, Len(all))
                            /\ Len(cs2.resample_buffer) = Len(all) % cs.chunk_size
        /\ (/\ op' \notin {"process_samples", "flush_residuals"}
            /\ ~(op' = "start" /\ ret'.tag = "Ok"))
                => \A cs2 \in callback_state' :
                        cs2.resample_buffer = cs.resample_buffer]_vars

\* C15's case: a call whose input, put after a sample left from the call
\* before, made two whole chunks.
C15_Witness ==
    /\ op = "process_samples"
    /\ Len(calls) = 2
    /\ Len(cb_input) = 2 * RESAMPLE_CHUNK_SIZE - 1
    /\ calls[1].samples # calls[2].samples

\* C16: flush_residuals on a residual of 1 to chunk_size - 1 samples leaves
\* the accumulation buffer empty, whether or not the resampler gave output.
C16_FlushEmptiesResidual ==
    [][\A cs \in callback_state :
        (/\ op' = "flush_residuals"
         /\ cs.resampler
         /\ Len(cs.resample_buffer) \in 1..(cs.chunk_size - 1))
            => /\ callback_state' # {}
               /\ \A cs2 \in callback_state' : cs2.resample_buffer = <<>>]_vars

\* C16's case: a residual of two samples was flushed and the resampler
\* gave no output for it.
C16_Witness ==
    /\ op = "flush_residuals"
    /\ Len(calls) = 1
    /\ calls[1].samples[2] # 0
    /\ ret.resampled = 0
    /\ \E cs \in callback_state : cs.resample_buffer = <<>>

\* C17: flush_residuals on an empty accumulation buffer does nothing: the
\* destination buffer, output_sample_count and the rest of the
\* CallbackState stay as they are and the resampler is not called.
C17_FlushOfNothing ==
    [][(/\ op' = "flush_residuals"
        /\ \A cs \in callback_state : cs.resample_buffer = <<>>)
            => /\ heap' = heap
               /\ callback_state' = callback_state
               /\ calls' = <<>>]_vars

\* C17's case: a session with a resampler that took samples in, all of
\* them in whole chunks, was flushed.
C17_Witness ==
    /\ op = "flush_residuals"
    /\ calls = <<>>
    /\ ~stop_trace[Len(stop_trace)].residual
    /\ \E cs \in callback_state :
        cs.resampler /\ cs.input_sample_count > 0 /\ cs.poisoned = {}

\* C18: flush_residuals appends at most ceil(r * target_rate / source_rate)
\* samples to the destination buffer, r being the residual's length.
C18_FlushTruncated ==
    [][op' = "flush_residuals" =>
        \A cs \in callback_state :
            LET r == Len(cs.resample_buffer)
                ceiling == (r * TARGET_SAMPLE_RATE + cs.device_sample_rate - 1)
                                \div cs.device_sample_rate
            IN /\ Len(heap'[cs.buffer]) - Len(heap[cs.buffer]) <= ceiling
               /\ \A cs2 \in callback_state' :
                    cs2.output_sample_count - cs.output_sample_count <= ceiling]_vars

\* C18's case: the resampler gave more frames than the residual's share
\* and only that share was appended.
C18_Witness ==
    /\ op = "flush_residuals"
    /\ ret.resampled > 1
    /\ \E cs \in callback_state :
        /\ cs.output_sample_count = 1
        /\ Len(heap[cs.buffer]) = 1

\* C19: without a resampler process_samples appends the input to the
\* destination buffer as it is, as far as the buffer has room, and neither
\* the accumulation buffer nor the resampler is used.
C19_Passthrough ==
    [][\A cs \in callback_state :
        (op' = "process_samples" /\ ~cs.resampler)
            => LET room == MAX_BUFFER_SAMPLES - Len(heap[cs.buffer])
                   taken == IF Len(cb_input') <= room THEN Len(cb_input') ELSE room
               IN /\ heap'[cs.buffer] = heap[cs.buffer] \o SubSeq(cb_input', 1, taken)
                  /\ calls' = <<>>
                  /\ \A cs2 \in callback_state' :
                        cs2.resample_buffer = <<>> /\ cs.resample_buffer = <<>>]_vars

\* C19's case: two calls without a resampler, the second of which brought
\* the buffer to its contents 1, 2 without filling it over.
C19_Witness ==
    /\ op = "process_samples"
    /\ cb_reason = {}
    /\ cb_input = <<2>>
    /\ \E cs \in callback_state :
        ~cs.resampler /\ heap[cs.buffer] = <<1, 2>>

\* C20: a successful stop_recording ends in Idle and returns the number of
\* samples the session buffer held at the stop as sample_count, and that
\* number divided by the coordinator's sample rate as duration_secs: one
\* second when the buffer held sample_rate samples.
C20_MetadataMatchesBuffer ==
    [][(op' = "stop_recording" /\ ret'.tag = "Ok")
        => /\ state = "Recording" /\ state' = "Idle"
           /\ audio_buffer # {}
           /\ \A b \in audio_buffer :
                /\ ret'.sample_count = Len(heap[b])
                /\ ret'.duration_secs.num * sample_rate
                        = Len(heap[b]) * ret'.duration_secs.den
                /\ ret'.duration_secs.den # 0
                /\ Len(heap[b]) = sample_rate
                        => ret'.duration_secs.num = ret'.duration_secs.den]_vars

\* C20's case: a coordinator with a rate of two samples a second recorded
\* two samples and stopped.
C20_Witness ==
    /\ op = "stop_recording"
    /\ ret.tag = "Ok"
    /\ state = "Idle"
    /\ sample_rate = 2
    /\ ret.sample_count = 2
    /\ ret.duration_secs = [num |-> 2, den |-> 2]

\* Whether the changes tr hold a transition_to from Processing to Idle.
LeftProcessing(tr) ==
    \E i \in 1..Len(tr) :
        tr[i] = [from |-> "Processing", to |-> "Idle", by |-> "transition_to"]

\* Whether the changes tr hold a transition_to from Idle to Recording.
EnteredRecording(tr) ==
    \E i \in 1..Len(tr) :
        tr[i] = [from |-> "Idle", to |-> "Recording", by |-> "transition_to"]

\* C21: an operation that makes the Processing -> Idle transition copies the
\* live buffer's samples of that moment into the last recording and drops
\* the live buffer: right afterwards get_last_recording_buffer gives exactly
\* those samples and get_audio_buffer gives NoAudioBuffer.
C21_SnapshotOnLeavingProcessing ==
    [][/\ LeftProcessing(trail') =>
            /\ audio_buffer # {}
            /\ \A b \in audio_buffer :
                /\ get_last_recording_buffer(Manager').tag = "Ok"
                /\ get_last_recording_buffer(Manager').samples = heap[b]
            /\ get_audio_buffer_result(Manager') = [tag |-> "NoAudioBuffer"]
       /\ (LeftProcessing(trail) /\ op' = "get_last_recording_buffer") =>
            /\ ret'.tag = "Ok"
            /\ \A r \in last_recording : ret'.samples = r.samples
       /\ (LeftProcessing(trail) /\ op' = "get_audio_buffer") =>
            ret' = [tag |-> "NoAudioBuffer"]]_vars

\* C21's case: a recording of two samples was read back right after the
\* transition to Idle that retained it.
C21_Witness ==
    /\ op = "get_last_recording_buffer"
    /\ prev_state = "Idle"
    /\ ret.tag = "Ok"
    /\ ret.samples = <<1, 2>>
    /\ audio_buffer = {}

\* C22: the last recording changes only in an operation that makes the
\* Processing -> Idle transition and in clear_last_recording, which removes
\* it; the other transitions, rejected transitions, reset_to_idle and the
\* reads leave it as it is.
C22_LastRecordingSurvives ==
    [][/\ last_recording' # last_recording =>
            (op' = "clear_last_recording" \/ LeftProcessing(trail'))
       /\ op' = "clear_last_recording" => last_recording' = {}
       /\ op' \in {"reset_to_idle", "get_last_recording_buffer", "get_audio_buffer"}
            => last_recording' = last_recording
       /\ (op' = "transition_to" /\ ~LeftProcessing(trail'))
            => last_recording' = last_recording]_vars

\* C22's case: a later session was abandoned with reset_to_idle and the
\* recording retained before it is still there.
C22_Witness ==
    /\ op = "reset_to_idle"
    /\ prev_state = "Recording"
    /\ state = "Idle"
    /\ \E r \in last_recording : r.samples # <<>>

\* C23: the buffer installed by an Idle -> Recording transition is empty and
\* is the storage of no handle that existed before, and what the backend
\* writes through the handle of an earlier session leaves the buffer of the
\* present session as it is.
C23_FreshBufferPerSession ==
    [][/\ EnteredRecording(trail') =>
            \A b \in audio_buffer' : b \notin LiveHandles /\ heap'[b] = <<>>
       /\ (op' = "capture" /\ backend_buffer # audio_buffer) =>
            \A b \in audio_buffer : heap'[b] = heap[b]]_vars

\* C23's case: the backend still holds the buffer of an abandoned session
\* and has written a sample through it while a new session's buffer is
\* installed and empty.
C23_Witness ==
    /\ op = "capture"
    /\ state = "Recording"
    /\ audio_buffer # {}
    /\ backend_buffer # {}
    /\ backend_buffer # audio_buffer
    /\ \E b \in backend_buffer : heap[b] # <<>>
    /\ \E b \in audio_buffer : heap[b] = <<>>

\* The frame that opened the unbroken run of silent frames frame i of fs
\* belongs to.
RunStart(fs, i) ==
    CHOOSE j \in 1..i :
        /\ \A n \in j..i : ~fs[n].speech
        /\ j > 1 => fs[j - 1].speech

\* The silence span at silent frame i of fs: from the moment the run's first
\* frame arrived to the moment frame i read the time.
SilenceSpan(fs, i) == fs[i].read - fs[RunStart(fs, i)].at

\* C28: in a session fed only silent frames, every process_samples call
\* returns Stop(NoSpeechTimeout) if the time it reads is no_speech_timeout_ms
\* or more after recording_start, and Continue if it is less.
C28_NoSpeechTimeout ==
    (/\ op = "detector.process_samples"
     /\ \A i \in 1..Len(frames) : ~frames[i].speech)
        => \A d \in detector : \A i \in 1..Len(frames) :
            frames[i].result =
                IF frames[i].read - d.recording_start >= d.config.no_speech_timeout_ms
                THEN StopDetection("NoSpeechTimeout")
                ELSE Continue

\* C28's case: silent frames before the timeout, at it and after it.
C28_Witness ==
    /\ op = "detector.process_samples"
    /\ Len(frames) = 4
    /\ \A i \in 1..4 : ~frames[i].speech
    /\ frames[1].result = Continue
    /\ frames[2].result = Continue
    /\ frames[3].result = StopDetection("NoSpeechTimeout")
    /\ frames[4].result = StopDetection("NoSpeechTimeout")
    /\ \E d \in detector : d.vad /\ frames[3].read - d.recording_start = d.config.no_speech_timeout_ms

\* C29: a silent frame that comes after a frame with speech returns
\* Stop(SilenceAfterSpeech) if the unbroken silence it belongs to has
\* lasted silence_duration_ms or more, and Continue if less, whatever the
\* time since the recording started.
C29_SilenceAfterSpeech ==
    op = "detector.process_samples" =>
        \A d \in detector : \A i \in 1..Len(frames) :
            (~frames[i].speech /\ \E j \in 1..(i - 1) : frames[j].speech)
                => frames[i].result =
                        IF SilenceSpan(frames, i) >= d.config.silence_duration_ms
                        THEN StopDetection("SilenceAfterSpeech")
                        ELSE Continue

\* C29's case: after speech, a silent frame within the allowed silence and
\* a later one at its end, in a recording older than the no-speech timeout.
C29_Witness ==
    /\ op = "detector.process_samples"
    /\ Len(frames) = 3
    /\ frames[1].speech
    /\ ~frames[2].speech /\ frames[2].result = Continue
    /\ ~frames[3].speech /\ frames[3].result = StopDetection("SilenceAfterSpeech")
    /\ \E d \in detector :
        /\ SilenceSpan(frames, 3) = d.config.silence_duration_ms
        /\ frames[2].read - d.recording_start >= d.config.no_speech_timeout_ms

\* C30: a frame with speech clears silence_start and returns Continue, and
\* while every unbroken silence is shorter than silence_duration_ms no call
\* returns Stop(SilenceAfterSpeech), however long the silences are together.
C30_SpeechResetsSilence ==
    [][op' = "detector.process_samples" =>
        /\ frames'[Len(frames')].speech =>
            /\ ret' = Continue
            /\ \A d \in detector' : d.silence_start = {} /\ d.has_detected_speech
        /\ \A d \in detector' :
            (\A i \in 1..Len(frames') :
                ~frames'[i].speech
                    => SilenceSpan(frames', i) < d.config.silence_duration_ms)
              => \A i \in 1..Len(frames') :
                    frames'[i].result # StopDetection("SilenceAfterSpeech")]_vars

\* C30's case: two short silences with speech between them that together
\* last silence_duration_ms, and no stop.
C30_Witness ==
    /\ op = "detector.process_samples"
    /\ Len(frames) = 4
    /\ frames[1].speech /\ ~frames[2].speech /\ frames[3].speech /\ ~frames[4].speech
    /\ \A i \in 1..4 : frames[i].result = Continue
    /\ \E d \in detector :
        SilenceSpan(frames, 2) + SilenceSpan(frames, 4) >= d.config.silence_duration_ms

\* The command an operation of the AudioThreadHandle sends.
CommandOf(o) ==
    CASE o = "handle_start" -> "Start"
      [] o = "handle_stop" -> "Stop"
      [] o = "shutdown" -> "Shutdown"

HandleOps == {"handle_start", "handle_stop", "shutdown"}

\* C24: the handle's operations only put their command behind those
\* waiting and never touch the backend; the audio thread alone touches it,
\* one call per command, and the command it applies is always the oldest
\* one waiting.
C24_CommandsAppliedInOrder ==
    [][/\ op' \in HandleOps =>
            /\ Cpal' = Cpal
            /\ calls' = <<>>
            /\ SubSeq(queue', 1, Len(queue)) = queue
            /\ Len(queue') <= Len(queue) + 1
       /\ op' = "audio_thread" =>
            /\ queue # <<>>
            /\ thread_log'.cmd = Head(queue).cmd
            /\ thread_log'.buffer = Head(queue).buffer
            /\ Len(calls') = 1
            /\ calls'[1].fn = IF Head(queue).cmd = "Start" THEN "backend.start"
                              ELSE "backend.stop"
            /\ queue' = IF Head(queue).cmd = "Shutdown" THEN <<>> ELSE Tail(queue)
       /\ Cpal' # Cpal => op' = "audio_thread"]_vars

\* C24's case: two Start commands were sent one after the other; the audio
\* thread has applied the first and the second is still waiting.
C24_Witness ==
    /\ op = "audio_thread"
    /\ thread_log = [cmd |-> "Start", buffer |-> {1}, ok |-> TRUE]
    /\ queue = <<Start(2)>>
    /\ \E cs \in callback_state : cs.buffer = 1

\* C25: start, stop and shutdown of the handle return Ok exactly when the
\* audio thread's receiver exists, and then the command is in the channel;
\* else they return ThreadDisconnected and send nothing. They read nothing
\* of the backend and leave it and the thread's log alone.
C25_FireAndForget ==
    [][op' \in HandleOps =>
        /\ ret' = IF thread_running THEN Ok ELSE Err("ThreadDisconnected")
        /\ thread_running =>
            /\ Len(queue') = Len(queue) + 1
            /\ queue'[Len(queue')].cmd = CommandOf(op')
        /\ ~thread_running => queue' = queue
        /\ UNCHANGED <<cpal_state, stream, callback_state, thread_log, thread_running>>]_vars

\* C25's case: the backend failed to start on the audio thread and the
\* handle's next command returned Ok all the same.
C25_Witness ==
    /\ op = "handle_stop"
    /\ ret = Ok
    /\ thread_log.cmd = "Start"
    /\ ~thread_log.ok
    /\ cpal_state = "Idle"

StopStatements == {StopOrder[i] : i \in 1..Len(StopOrder)}

\* C26 as claimed: a stop that met neither a stream nor a CallbackState
\* returns Ok and leaves the backend as it found it.
C26_StopWithoutStartChangesNothing ==
    (/\ op = "clear"
     /\ ~stop_trace[1].stream
     /\ ~stop_trace[1].state)
        => /\ ret.tag = "Ok"
           /\ stream = {}
           /\ callback_state = {}
           /\ cpal_state = stop_trace[1].capture

\* C26 as amended: every statement of a stop that meets neither a stream
\* nor a CallbackState returns normally, resamples and pushes nothing, sends
\* no stop reason and leaves stream and CallbackState absent; the last one
\* sets the capture state to Stopped, which is the stop's only effect.
C26_StopWithoutStartOnlyMarksStopped ==
    [][(/\ op' \in StopStatements
        /\ stream = {}
        /\ callback_state = {})
            => /\ ret' = [tag |-> "Ok", resampled |-> 0]
               /\ calls' = <<>>
               /\ heap' = heap
               /\ stop_channel' = stop_channel
               /\ stream' = {}
               /\ callback_state' = {}
               /\ cpal_state' = IF op' = "clear" THEN "Stopped" ELSE cpal_state]_vars

\* C26's case: stop has run to its end on a backend that was never started.
C26_Witness ==
    /\ op = "clear"
    /\ stop_pc = 0
    /\ Len(stop_trace) = Len(StopOrder)
    /\ stop_trace[1].capture = "Idle"
    /\ \A i \in 1..Len(stop_trace) : ~stop_trace[i].stream /\ ~stop_trace[i].state
    /\ cpal_state = "Stopped"

\* C27: while stop_recording_impl is inside encode_wav it holds neither
\* the mutex of the recording state nor the mutex of the sample buffer.
C27_NoLockWhileEncoding ==
    impl_pc = "encoding" => state_lock = {} /\ buffer_lock = {}

\* C31: reset leaves has_detected_speech false, silence_start None and
\* recording_start at the time of the reset: the detector is the one
\* with_config builds at that moment from the same config (with the same
\* outcome of create_vad), whatever the detector was before, so every later
\* process_samples call returns what it returns on the new detector.
C31_ResetIsFresh ==
    [][(op' = "reset" /\ clock' = clock) =>
        \A d \in detector' :
            /\ ~d.has_detected_speech
            /\ d.silence_start = {}
            /\ d.recording_start = clock
            /\ d.config = arg'.config
            /\ d = with_config(arg'.config, d.vad, clock)
            /\ \A frame \in AudioFrames, later \in {clock, clock + 1} :
                    detector_process_samples(d, frame, clock, later)
                        = detector_process_samples(
                              with_config(arg'.config, d.vad, clock),
                              frame, clock, later)]_vars

\* C31's case: reset of a detector that has heard speech, is in a silence
\* span and was started earlier.
C31_Witness ==
    /\ op = "reset"
    /\ arg.has_detected_speech
    /\ arg.silence_start # {}
    /\ arg.recording_start < clock
    /\ \E d \in detector : d = with_config(arg.config, TRUE, clock)

\* The warnings of type x that calls still inside check_warnings hold.
Pending(x) ==
    Cardinality({t \in CheckThreads :
        \E i \in 1..Len(chk[t].warnings) : chk[t].warnings[i] = x})

\* C32: over any interleaving of record_input with check_warnings calls of
\* several threads, each warning type is returned at most once, calls still
\* running included, and TooQuiet is held or returned only when at least
\* MIN_SAMPLES_FOR_WARNING samples have been recorded.
C32_EachWarningOnce ==
    /\ \A x \in QualityWarningType : returned[x] + Pending(x) <= 1
    /\ returned["TooQuiet"] + Pending("TooQuiet") > 0
            => diag.input_sample_count >= MIN_SAMPLES_FOR_WARNING
    /\ op = "check_warnings" =>
            \A i \in 1..Len(ret.warnings) :
                /\ returned[ret.warnings[i]] = 1
                /\ \A j \in 1..Len(ret.warnings) : j # i => ret.warnings[j] # ret.warnings[i]

\* C32's case: both warnings have been returned, a call that came later
\* returned none, and another call is under way with enough quiet samples
\* and a clipping count in hand.
C32_Witness ==
    /\ op = "check_warnings"
    /\ ret.warnings = <<>>
    /\ returned["TooQuiet"] = 1
    /\ returned["Clipping"] = 1
    /\ diag.quiet_warning_emitted /\ diag.clipping_warning_emitted
    /\ \E t \in CheckThreads :
        /\ chk[t].pc = "swap"
        /\ chk[t].clip_count > 0
        /\ enough_samples(chk[t].sample_count)
        /\ rms_is_quiet(chk[t].sum_sq, chk[t].sample_count)
        /\ chk[t].warnings = <<>>

\* The threads that are inside a command, past its state.lock().
Inside == {t \in Callers : caller[t].pc # "idle"}

\* C33: start_recording_impl and stop_recording_impl called by several
\* threads exclude each other from the lock to the return: one thread at
\* most is inside a command, it holds the state mutex, and only its steps
\* change the RecordingManager. In each session at most one start and at
\* most one stop return Ok, there is at most one transition from Recording
\* to Processing and at most one encoded file. A start that finds the state
\* Idle returns Ok; a start that finds another state and a stop that finds a
\* state other than Recording return an error and change nothing; a stop
\* that finds Recording returns Ok unless encode_wav fails, and encodes a
\* file unless the recording is empty.
C33_CallsExcludeEachOther ==
    /\ [](/\ Cardinality(Inside) <= 1
          /\ state_lock = Inside
          /\ tally.starts <= 1 /\ tally.stops <= 1
          /\ tally.processing <= 1 /\ tally.encoded <= 1
          /\ tally.stops <= tally.processing
          /\ tally.encoded <= tally.processing
          /\ tally.processing <= tally.starts)
    /\ [][/\ mgrVars' # mgrVars =>
                \E t \in Inside : state_lock = {t} /\ caller'[t] # caller[t]
          /\ \A t \in Callers :
                (caller[t].pc = "locked" /\ caller'[t].pc # "locked") =>
                    CASE caller[t].fn = "start_recording_impl" /\ state = "Idle" ->
                            /\ ret' = Ok
                            /\ state' = "Recording"
                            /\ tally'.starts = 1
                      [] caller[t].fn = "start_recording_impl" /\ state # "Idle" ->
                            /\ ret' = Err("AlreadyRecording")
                            /\ UNCHANGED <<mgrVars, heap, tally>>
                      [] caller[t].fn = "stop_recording_impl" /\ state = "Recording" ->
                            /\ ret' = Ok
                            /\ state' = "Processing"
                            /\ caller'[t].pc \in {"encoding", "finishing"}
                      [] caller[t].fn = "stop_recording_impl" /\ state # "Recording" ->
                            /\ ret' = Err("NotRecording")
                            /\ UNCHANGED <<mgrVars, heap, tally>>
          /\ \A t \in Callers :
                (caller[t].pc \in {"encoding", "finishing"} /\ caller'[t].pc = "idle") =>
                    \/ /\ ret' = Err("SaveFailed")
                       /\ caller[t].pc = "encoding"
                       /\ UNCHANGED <<mgrVars, heap, tally>>
                    \/ /\ ret'.tag = "Ok"
                       /\ state' = "Idle"
                       /\ tally'.stops = 1
                       /\ tally'.encoded = IF caller[t].samples # <<>> THEN 1 ELSE 0
         ]_vars

\* C33's case: while one thread's stop is encoding, the other thread has
\* called a command and waits for the mutex; the first then returns Ok, and
\* here the second, a stop too, has taken the mutex after it.
C33_Witness ==
    /\ op = "stop_recording_impl"
    /\ ret.tag = "Ok" /\ ret.encoded
    /\ tally = [starts |-> 1, processing |-> 1, encoded |-> 1, stops |-> 1]
    /\ state = "Idle"
    /\ \E t \in Callers :
        /\ t # arg
        /\ caller[t].pc = "locked"
        /\ caller[t].fn = "stop_recording_impl"
        /\ state_lock = {t}

\* C33 as stated: in each session exactly one stop succeeds and encodes one
\* file, so once the thread that moved the state from Recording to
\* Processing has left stop_recording_impl, one stop has returned Ok and one
\* file has been encoded.
C33_ExactlyOneStop ==
    (tally.processing = 1 /\ Inside = {}) => tally.stops = 1 /\ tally.encoded = 1

\* C34: in every state the RecordingManager reaches by transition_to
\* (accepted or rejected), reset_to_idle and clear_last_recording, the live
\* audio buffer is present exactly when the state is Recording or
\* Processing: get_audio_buffer gives the buffer in those states and
\* NoAudioBuffer in Idle, and never anything else.
C34_BufferIffSessionOpen ==
    /\ audio_buffer # {} <=> state \in {"Recording", "Processing"}
    /\ get_audio_buffer_result(Manager).tag
            = IF state = "Idle" THEN "NoAudioBuffer" ELSE "Ok"
    /\ op = "get_audio_buffer" =>
            IF state = "Idle"
            THEN ret = [tag |-> "NoAudioBuffer"]
            ELSE ret.tag = "Ok" /\ audio_buffer = {ret.buffer}

\* C34's case: get_audio_buffer fails in Idle after a session has been
\* completed, whose recording is retained.
C34_Witness ==
    /\ op = "get_audio_buffer"
    /\ ret = [tag |-> "NoAudioBuffer"]
    /\ state = "Idle"
    /\ audio_buffer = {}
    /\ last_recording # {}

\* C35: the backend lets go of a session's CallbackState only after
\* flush_residuals has run on it, so whenever a start or the last statement
\* of a stop discards a CallbackState, no input samples are left in its
\* resample_buffer.
C35_FlushedBeforeDiscarded ==
    [][((op' = "start" /\ ret' = Ok) \/ (op' = "clear" /\ callback_state' = {}))
            => \A cs \in callback_state : cs.resample_buffer = <<>>]_vars

\* A Shutdown command is in the channel.
ShutdownSent == \E i \in 1..Len(queue) : queue[i] = Shutdown

\* C36: once a Shutdown command is in the channel the audio thread
\* eventually stops the backend and exits, with no stream and no
\* CallbackState left and Shutdown the last command it applied. After that
\* the backend never changes, the commands sent behind Shutdown are dropped
\* with the channel and never applied, and every start, stop and shutdown of
\* the handle returns ThreadDisconnected.
C36_ShutdownTerminates ==
    /\ ShutdownSent ~> (~thread_running /\ stream = {} /\ callback_state = {})
    /\ [](~thread_running =>
            /\ thread_log.cmd = "Shutdown"
            /\ stream = {} /\ callback_state = {} /\ cpal_state = "Stopped"
            /\ queue = <<>>)
    /\ [][/\ ~thread_running =>
                /\ ~thread_running'
                /\ Cpal' = Cpal
                /\ thread_log' = thread_log
                /\ op' \in HandleOps
                /\ ret' = Err("ThreadDisconnected")
          /\ (thread_running /\ ~thread_running') =>
                /\ Head(queue) = Shutdown
                /\ calls' = <<Call("backend.stop", <<>>, TRUE)>>
          /\ (op' = "audio_thread" /\ Head(queue) = Shutdown) => ~thread_running'
         ]_vars

\* C36's case: the thread has exited on Shutdown, and a later start of the
\* handle has failed with ThreadDisconnected and sent nothing.
C36_Witness ==
    /\ ~thread_running
    /\ thread_log.cmd = "Shutdown"
    /\ stream = {}
    /\ op = "handle_start"
    /\ ret = Err("ThreadDisconnected")
    /\ queue = <<>>

\* C37: once unregister_escape_listener has been called after
\* register_escape_listener and every thread the two spawned has finished,
\* the Escape shortcut is not registered with the backend and
\* escape_registered is false.
C37_UnregisteredAfterStop ==
    (op = "unregister_escape_listener" /\ Unfinished(deferred) = 0)
        => ESCAPE_SHORTCUT \notin shortcuts /\ ~escape_registered

\* C38: after a stop_recording that returned its metadata, the retained last
\* recording carries the coordinator's sample rate, and the duration that
\* get_last_recording_buffer reports for it is the duration of the
\* metadata (the two quotients are equal).
C38_RetainedRateIsSessionRate ==
    (op = "stop_recording" /\ ret.tag = "Ok") =>
        LET last == get_last_recording_buffer(Manager) IN
        /\ last.tag = "Ok"
        /\ last.sample_rate = sample_rate
        /\ last.duration_secs.num * ret.duration_secs.den
                = ret.duration_secs.num * last.duration_secs.den

\* C39: when stop has run flush_residuals, the session's output_sample_count
\* is the number of samples the session appended to its destination buffer
\* (the buffer was empty when the session got it).
C39_OutputCountIsAppended ==
    op = "flush_residuals" =>
        \A cs \in callback_state : cs.output_sample_count = Len(heap[cs.buffer])

\* C40: a process_samples call never turns has_detected_speech from true to
\* false, never returns Stop(NoSpeechTimeout) on a detector that has
\* detected speech, and never returns Stop(SilenceAfterSpeech) on one that
\* has not.
C40_SpeechSeenIsKept ==
    [][Len(frames') = Len(frames) + 1 =>
        \A d \in detector, d2 \in detector' :
            /\ d.has_detected_speech =>
                    /\ d2.has_detected_speech
                    /\ ret' # StopDetection("NoSpeechTimeout")
            /\ ~d.has_detected_speech =>
                    ret' # StopDetection("SilenceAfterSpeech")]_vars

\* A detector that has detected speech was given a silent frame when the
\* session had run for the no-speech timeout or longer, and the call
\* returned Continue.
C40_Witness ==
    /\ op = "detector.process_samples"
    /\ ret = Continue
    /\ Len(frames) >= 2
    /\ ~frames[Len(frames)].speech
    /\ \E d \in detector :
        /\ d.has_detected_speech
        /\ frames[Len(frames)].read - d.recording_start
                >= d.config.no_speech_timeout_ms

====
